---- MODULE Spec2Model ----
(***************************************************************************)
(* A model of rag_builder's indexing and hybrid retrieval engine:           *)
(*   IndexingToolkit.chunk_document / embed_chunks / deduplicate_and_store  *)
(*   RAGPipeline.ingest / ask           (src/rag_builder/pipeline.py)       *)
(*   HybridRetriever.retrieve           (src/rag_builder/toolkits.py)       *)
(*                                                                         *)
(* A text is a tuple of one-character strings.  A Qdrant collection is a    *)
(* function from point ids to points.  The parser, the embedding model and  *)
(* the similarity search are external: the model draws their answers from   *)
(* bounded sets, within what their interfaces promise.                      *)
(***************************************************************************)
EXTENDS Integers, Sequences, FiniteSets, TLC

VARIABLES
    collection,   \* the Qdrant collection: point id -> [vector, payload]
    phase,        \* "idle", then what was done: "ingested", "reingested", "queried",
                  \* "stored", "loaded", or "running" while /ingest threads run
    last,         \* what the last RAGPipeline.ingest call was given and did
    ret,          \* what the last HybridRetriever.retrieve / RAGPipeline.ask call did
    jobs,         \* the /ingest threads of the TUI: what each is at and has yet to write
    rags_file,        \* rags.json (RAGS_CONFIG_PATH): absent, or the value it holds
    rags_config,      \* the TUI's global rags_config
    active_rag_name,  \* the TUI's global active_rag_name
    store,            \* the vector store: collection name -> collection
    spinner,          \* spinner_running, _spinner_task, status_text and the
                      \* cancelled spinner loops that have yet to unwind
    tasks,            \* the TUI's background tasks, one per command entered
    uuids,            \* how many uuid4 values were drawn
    cli               \* what the last run of the command-line tool did

\* The state of the pipeline and its toolkits, and that of the front ends.
back  == <<collection, phase, last, ret, jobs>>
front == <<rags_file, rags_config, active_rag_name, store, spinner, tasks, uuids, cli>>
vars  == <<back, front>>

(***************************************************************************)
(* Bounds                                                                  *)
(***************************************************************************)
\* Elements per parsed document.
MaxElems == 2

(***************************************************************************)
(* Texts                                                                   *)
(***************************************************************************)
RECURSIVE Concat(_)
\* The concatenation of a sequence of texts.
Concat(ts) == IF ts = <<>> THEN <<>> ELSE Head(ts) \o Concat(Tail(ts))

RECURSIVE Join(_, _)
\* sep.join(ts)
Join(sep, ts) ==
    IF ts = <<>> THEN <<>>
    ELSE IF Len(ts) = 1 THEN Head(ts)
    ELSE Head(ts) \o sep \o Join(sep, Tail(ts))

\* The byte a character encodes to, as a digit 1..4 of the digest below.
CharCode(c) ==
    CASE c = "a" -> 1
      [] c = "b" -> 2
      [] c = " " -> 3
      [] c = "\n" -> 4

\* The radix of the digest: one more than the largest CharCode.
HashBase == 5

RECURSIVE ChunkHash(_)
\* hashlib.md5(chunk.encode()).hexdigest(): a digest of the text's bytes and of
\* nothing else.  The digest is the bytes read as a number in radix HashBase,
\* which, like md5 on any corpus met in practice, gives no two texts of the
\* model the same digest.
ChunkHash(text) ==
    IF text = <<>> THEN 0
    ELSE ChunkHash(SubSeq(text, 1, Len(text) - 1)) * HashBase + CharCode(text[Len(text)])

(***************************************************************************)
(* Documents (the parser's output) and the chunker                         *)
(***************************************************************************)
\* A file path is <<root, ext>>, the two parts os.path.splitext cuts it into;
\* the path itself is their concatenation.
IngestPaths == {<<"m", ".py">>, <<"m", ".PY">>, <<"n", ".ipynb">>, <<"r", ".md">>}

\* os.path.splitext(path)[1]
SplitExt(path) == path[2]

\* path.endswith(suffix), for a suffix that starts with a dot and has no other.
EndsWith(path, suffix) == path[2] = suffix

\* str.lower() on the extensions met here.
Lower(ext) ==
    CASE ext = ".PY" -> ".py"
      [] ext = ".IPYNB" -> ".ipynb"
      [] ext = ".MD" -> ".md"
      [] ext = ".PDF" -> ".pdf"
      [] OTHER -> ext

\* The parser's elements met in ingestion: a heading and a paragraph.
IngestElements ==
    { [category |-> "Title", text |-> <<"a">>],
      [category |-> "NarrativeText", text |-> <<"b">>] }

SeqsUpTo(S, n) == UNION { [1..k -> S] : k \in 0..n }

IngestDocs ==
    { [file_path |-> p, elements |-> es] :
        p \in IngestPaths, es \in SeqsUpTo(IngestElements, MaxElems) }

\* One call of ingest loads no document, one document or two, each file once.
IngestBatches ==
    {<<>>} \cup { <<d>> : d \in IngestDocs }
           \cup { <<p[1], p[2]>> :
                    p \in { q \in IngestDocs \X IngestDocs : q[1].file_path # q[2].file_path } }

RECURSIVE Sections(_, _)
\* The elements cut into sections: a Title element opens a new section.
\* cur is the section being filled.
Sections(elements, cur) ==
    IF elements = <<>> THEN (IF cur = <<>> THEN <<>> ELSE <<cur>>)
    ELSE LET e == Head(elements) IN
         IF e.category = "Title" /\ cur # <<>>
         THEN <<cur>> \o Sections(Tail(elements), <<e>>)
         ELSE Sections(Tail(elements), Append(cur, e))

Texts(elements) == [i \in 1..Len(elements) |-> elements[i].text]

\* unstructured's chunk_by_title, the external segmenter: one chunk per
\* section, its text the section's element texts joined by a blank line.
chunk_by_title(elements) ==
    LET secs == Sections(elements, <<>>)
    IN  [i \in 1..Len(secs) |-> Join(<<"\n", "\n">>, Texts(secs[i]))]

\* IndexingToolkit.chunk_document
chunk_document(document) ==
    LET file_path == document.file_path
        elements  == document.elements
    IN  IF EndsWith(file_path, ".py") THEN Texts(elements)
        ELSE IF EndsWith(file_path, ".md") \/ EndsWith(file_path, ".rst")
             THEN chunk_by_title(elements)
        ELSE IF EndsWith(file_path, ".ipynb") THEN Texts(elements)
        ELSE chunk_by_title(elements)

(***************************************************************************)
(* The indexer                                                             *)
(***************************************************************************)
\* SentenceTransformer('all-MiniLM-L6-v2').encode: a fixed function of the
\* text, kept symbolic (the vector "of" a text).
Encode(text) == [model |-> "all-MiniLM-L6-v2", of |-> text]

\* IndexingToolkit.embed_chunks
embed_chunks(chunks) == [i \in 1..Len(chunks) |-> Encode(chunks[i])]

EmptyCollection == [i \in {} |-> 0]

\* A point whose id also depends on where the chunk stands in its document.
PointStructPositional(chunk, embedding, metadata) ==
    [ id      |-> ChunkHash(chunk) * HashBase + metadata.chunk_id + 1,
      vector  |-> embedding,
      payload |-> [ text        |-> chunk,
                    file_path   |-> metadata.file_path,
                    chunk_id    |-> metadata.chunk_id,
                    source_type |-> metadata.source_type,
                    tags        |-> metadata.tags,
                    commit_hash |-> metadata.commit_hash ] ]

\* A point whose id also depends on the file the chunk came from.
PointStructPerFile(chunk, embedding, metadata) ==
    [ id      |-> ChunkHash(chunk) * HashBase
                    + (CASE metadata.file_path[1] = "m" -> 1
                         [] metadata.file_path[1] = "n" -> 2
                         [] OTHER -> 3),
      vector  |-> embedding,
      payload |-> [ text        |-> chunk,
                    file_path   |-> metadata.file_path,
                    chunk_id    |-> metadata.chunk_id,
                    source_type |-> metadata.source_type,
                    tags        |-> metadata.tags,
                    commit_hash |-> metadata.commit_hash ] ]

\* models.PointStruct(id=chunk_hash, vector=embeddings[i], payload={"text": chunk, **metadata})
PointStruct(chunk, embedding, metadata) ==
    [ id      |-> ChunkHash(chunk),
      vector  |-> embedding,
      payload |-> [ text        |-> chunk,
                    file_path   |-> metadata.file_path,
                    chunk_id    |-> metadata.chunk_id,
                    source_type |-> metadata.source_type,
                    tags        |-> metadata.tags,
                    commit_hash |-> metadata.commit_hash ] ]

\* A write that first purges the points stored for the same place of the same
\* file.
PutPointPurgingPlace(coll, p) ==
    LET kept == { i \in DOMAIN coll :
                    \/ coll[i].payload.file_path # p.payload.file_path
                    \/ coll[i].payload.chunk_id # p.payload.chunk_id }
    IN  [ i \in kept \cup {p.id} |->
            IF i = p.id THEN [vector |-> p.vector, payload |-> p.payload] ELSE coll[i] ]

\* The store's write of one point: insert, or overwrite the point of that id.
PutPoint(coll, p) ==
    [ i \in DOMAIN coll \cup {p.id} |->
        IF i = p.id THEN [vector |-> p.vector, payload |-> p.payload] ELSE coll[i] ]

RECURSIVE Upsert(_, _)
\* QdrantClient.upsert(points=...): the points written in the order given.
Upsert(coll, points) ==
    IF points = <<>> THEN coll
    ELSE Upsert(PutPoint(coll, Head(points)), Tail(points))

Min(a, b) == IF a <= b THEN a ELSE b

\* A store that gives every point a new id, as uuid4 would, instead of the
\* digest of its text.
StoreUnderFreshIds(coll, chunks, embeddings, metadata_list) ==
    LET n == Min(Len(chunks), Len(metadata_list))
        top == IF DOMAIN coll = {} THEN 0
               ELSE CHOOSE m \in DOMAIN coll : \A i \in DOMAIN coll : i <= m
    IN  IF n > Len(embeddings)
        THEN [collection |-> coll, raised |-> TRUE, upserts |-> 0, points |-> <<>>]
        ELSE LET points == [i \in 1..n |->
                               [PointStruct(chunks[i], embeddings[i], metadata_list[i])
                                   EXCEPT !.id = top + i]]
             IN  IF points # <<>>
                 THEN [collection |-> Upsert(coll, points), raised |-> FALSE,
                       upserts |-> 1, points |-> points]
                 ELSE [collection |-> coll, raised |-> FALSE,
                       upserts |-> 0, points |-> points]

\* A store that first asks the collection which ids it holds and upserts
\* only the points that are new to it (scan, then insert).
StoreSkippingExisting(coll, chunks, embeddings, metadata_list) ==
    LET n == Min(Len(chunks), Len(metadata_list))
    IN  IF n > Len(embeddings)
        THEN [collection |-> coll, raised |-> TRUE, upserts |-> 0, points |-> <<>>]
        ELSE LET built == [i \in 1..n |->
                               PointStruct(chunks[i], embeddings[i], metadata_list[i])]
                 points == SelectSeq(built, LAMBDA p : p.id \notin DOMAIN coll)
             IN  IF points # <<>>
                 THEN [collection |-> Upsert(coll, points), raised |-> FALSE,
                       upserts |-> 1, points |-> points]
                 ELSE [collection |-> coll, raised |-> FALSE,
                       upserts |-> 0, points |-> points]

\* IndexingToolkit.deduplicate_and_store.  zip(chunks, metadata_list) stops at
\* the shorter list; embeddings[i] raises IndexError past the end of
\* embeddings, before anything is written.
deduplicate_and_store(coll, chunks, embeddings, metadata_list) ==
    LET n == Min(Len(chunks), Len(metadata_list))
    IN  IF n > Len(embeddings)
        THEN [collection |-> coll, raised |-> TRUE, upserts |-> 0, points |-> <<>>]
        ELSE LET points == [i \in 1..n |->
                               PointStruct(chunks[i], embeddings[i], metadata_list[i])]
             IN  IF points # <<>>
                 THEN [collection |-> Upsert(coll, points), raised |-> FALSE,
                       upserts |-> 1, points |-> points]
                 ELSE [collection |-> coll, raised |-> FALSE,
                       upserts |-> 0, points |-> points]

(***************************************************************************)
(* RAGPipeline.ingest                                                      *)
(***************************************************************************)
\* What goes wrong in one call: nothing, the chunking of document `doc`
\* raises, embed_chunks raises, or the store refuses the upsert.
NoFault == [at |-> "none", doc |-> 0]

Faults(documents) ==
    {NoFault}
      \cup { [at |-> "chunk", doc |-> k] : k \in 1..Len(documents) }
      \cup { [at |-> "embed", doc |-> 0], [at |-> "store", doc |-> 0] }

\* Metadata whose chunk ids count from 1.
DocMetadataOneBased(doc, chunks) ==
    [ i \in 1..Len(chunks) |->
        [ file_path   |-> doc.file_path,
          chunk_id    |-> i,
          source_type |-> SplitExt(doc.file_path),
          tags        |-> <<>>,
          commit_hash |-> "" ] ]

\* The metadata ingest builds for the chunks of one document.
DocMetadata(doc, chunks) ==
    [ i \in 1..Len(chunks) |->
        [ file_path   |-> doc.file_path,
          chunk_id    |-> i - 1,
          source_type |-> SplitExt(doc.file_path),
          tags        |-> <<>>,
          commit_hash |-> "" ] ]

RECURSIVE AllChunks(_)
\* all_chunks after the loop over `documents`
AllChunks(documents) ==
    IF documents = <<>> THEN <<>>
    ELSE chunk_document(Head(documents)) \o AllChunks(Tail(documents))

RECURSIVE AllMetadata(_)
\* all_metadata after the loop over `documents`
AllMetadata(documents) ==
    IF documents = <<>> THEN <<>>
    ELSE DocMetadata(Head(documents), chunk_document(Head(documents)))
           \o AllMetadata(Tail(documents))

\* An ingest that stores each chunk as soon as it is embedded: when the
\* embedding fails after the first chunk, that chunk is already stored.
IngestStoringAsItEmbeds(coll, documents, fault) ==
    IF documents = <<>>
    THEN [collection |-> coll, returned |-> TRUE, level |-> "warning",
          all_chunks |-> <<>>, all_metadata |-> <<>>, embeds |-> 0, upserts |-> 0]
    ELSE IF fault.at = "chunk"
    THEN LET done == SubSeq(documents, 1, fault.doc - 1)
         IN  [collection |-> coll, returned |-> FALSE, level |-> "error",
              all_chunks |-> AllChunks(done), all_metadata |-> AllMetadata(done),
              embeds |-> 0, upserts |-> 0]
    ELSE LET all_chunks   == AllChunks(documents)
             all_metadata == AllMetadata(documents)
             first        == SubSeq(all_chunks, 1, 1)
         IN  IF all_chunks = <<>>
             THEN [collection |-> coll, returned |-> TRUE, level |-> "success",
                   all_chunks |-> all_chunks, all_metadata |-> all_metadata,
                   embeds |-> 0, upserts |-> 0]
             ELSE IF fault.at = "embed"
             THEN [collection |->
                       deduplicate_and_store(coll, first, embed_chunks(first),
                                             all_metadata).collection,
                   returned |-> FALSE, level |-> "error",
                   all_chunks |-> all_chunks, all_metadata |-> all_metadata,
                   embeds |-> 1, upserts |-> 1]
             ELSE IF fault.at = "store"
             THEN [collection |-> coll, returned |-> FALSE, level |-> "error",
                   all_chunks |-> all_chunks, all_metadata |-> all_metadata,
                   embeds |-> 1, upserts |-> 1]
             ELSE LET stored == deduplicate_and_store(
                                    coll, all_chunks, embed_chunks(all_chunks), all_metadata)
                  IN  [collection |-> stored.collection,
                       returned |-> ~stored.raised,
                       level |-> IF stored.raised THEN "error" ELSE "success",
                       all_chunks |-> all_chunks, all_metadata |-> all_metadata,
                       embeds |-> 1, upserts |-> stored.upserts]

\* RAGPipeline.ingest on the documents load_from_path returned: the collection
\* it leaves, the value it returns, the level of its last log line, and the
\* calls it made.
ingest(coll, documents, fault) ==
    IF documents = <<>>
    THEN [collection |-> coll, returned |-> TRUE, level |-> "warning",
          all_chunks |-> <<>>, all_metadata |-> <<>>, embeds |-> 0, upserts |-> 0]
    ELSE IF fault.at = "chunk"
    THEN \* the exception leaves the for loop and the try block
         LET done == SubSeq(documents, 1, fault.doc - 1)
         IN  [collection |-> coll, returned |-> FALSE, level |-> "error",
              all_chunks |-> AllChunks(done), all_metadata |-> AllMetadata(done),
              embeds |-> 0, upserts |-> 0]
    ELSE LET all_chunks   == AllChunks(documents)
             all_metadata == AllMetadata(documents)
         IN  IF all_chunks = <<>>
             THEN [collection |-> coll, returned |-> TRUE, level |-> "success",
                   all_chunks |-> all_chunks, all_metadata |-> all_metadata,
                   embeds |-> 0, upserts |-> 0]
             ELSE IF fault.at = "embed"
             THEN [collection |-> coll, returned |-> FALSE, level |-> "error",
                   all_chunks |-> all_chunks, all_metadata |-> all_metadata,
                   embeds |-> 1, upserts |-> 0]
             ELSE IF fault.at = "store"
             THEN [collection |-> coll, returned |-> FALSE, level |-> "error",
                   all_chunks |-> all_chunks, all_metadata |-> all_metadata,
                   embeds |-> 1, upserts |-> 1]
             ELSE LET stored == deduplicate_and_store(
                                    coll, all_chunks, embed_chunks(all_chunks), all_metadata)
                  IN  [collection |-> stored.collection,
                       returned |-> ~stored.raised,
                       level |-> IF stored.raised THEN "error" ELSE "success",
                       all_chunks |-> all_chunks, all_metadata |-> all_metadata,
                       embeds |-> 1, upserts |-> stored.upserts]

(***************************************************************************)
(* Numbers.  Scores are counted in thousandths.  The 1e-10 of the min-max   *)
(* scaling is far below one thousandth, so a quantity m + e * 1e-10 with    *)
(* integer m and |e| < 10^7 is kept exactly as the pair <<m, e>>: its sign  *)
(* is the sign of m, or of e when m = 0.                                    *)
(***************************************************************************)
EpsSign(x) ==
    IF x[1] > 0 THEN 1 ELSE IF x[1] < 0 THEN -1
    ELSE IF x[2] > 0 THEN 1 ELSE IF x[2] < 0 THEN -1 ELSE 0

EpsSub(x, y) == <<x[1] - y[1], x[2] - y[2]>>
EpsLess(x, y) == EpsSign(EpsSub(y, x)) = 1
EpsLeq(x, y)  == EpsSign(EpsSub(y, x)) >= 0

RECURSIVE SeqSum(_)
SeqSum(xs) == IF xs = <<>> THEN 0 ELSE Head(xs) + SeqSum(Tail(xs))

SeqMin(xs) == CHOOSE m \in {xs[i] : i \in DOMAIN xs} : \A i \in DOMAIN xs : m <= xs[i]
SeqMax(xs) == CHOOSE m \in {xs[i] : i \in DOMAIN xs} : \A i \in DOMAIN xs : m >= xs[i]

\* A list or numpy array built from xs: its values, each computed once.
Array(xs) == SubSeq(xs, 1, Len(xs))

Reverse(xs) == Array([i \in 1..Len(xs) |-> xs[Len(xs) + 1 - i]])

\* The orders in which 1..n can be listed.
Perms(n) == { p \in [1..n -> 1..n] : \A i, j \in 1..n : i # j => p[i] # p[j] }

(***************************************************************************)
(* The vector store's search                                               *)
(***************************************************************************)
\* A query filter: none, or a match on the payload's file_path.
NoFilter == [key |-> "none", value |-> <<>>]

Matches(query_filter, payload) ==
    query_filter.key = "none" \/ payload.file_path = query_filter.value

\* QdrantClient.search(query_vector, limit, query_filter, with_payload=True)
\* in local mode.  sim gives each point's similarity to the query vector.  The
\* hits come best first, at most `limit` of them, and none for a limit of 0 or
\* less; points of equal score come in an order the store chooses.
Search(coll, sim, limit, query_filter) ==
    LET match == { i \in DOMAIN coll : Matches(query_filter, coll[i].payload) }
        n     == Cardinality(match)
        k     == IF limit <= 0 THEN 0 ELSE Min(limit, n)
        orders == { o \in [1..n -> match] :
                      /\ \A i, j \in 1..n : i # j => o[i] # o[j]
                      /\ \A i \in 1..n - 1 : sim[o[i]] >= sim[o[i + 1]] }
    IN  { Array([i \in 1..k |->
                   [id |-> o[i], score |-> sim[o[i]], payload |-> coll[o[i]].payload]])
            : o \in orders }

(***************************************************************************)
(* rank_bm25.BM25Okapi                                                     *)
(***************************************************************************)
IsSpace(c) == c = " " \/ c = "\n"

RECURSIVE SplitFrom(_, _)
\* The words of `text` from here on; cur is the word being read.
SplitFrom(text, cur) ==
    IF text = <<>> THEN (IF cur = <<>> THEN <<>> ELSE <<cur>>)
    ELSE IF IsSpace(Head(text))
         THEN (IF cur = <<>> THEN <<>> ELSE <<cur>>) \o SplitFrom(Tail(text), <<>>)
         ELSE SplitFrom(Tail(text), Append(cur, Head(text)))

\* str.split(): the maximal runs of non-whitespace characters.
Split(text) == SplitFrom(text, <<>>)

\* doc_freqs[i].get(word) or 0
Freq(doc, word) == Cardinality({ k \in DOMAIN doc : doc[k] = word })

\* 1000 * ln(k), rounded, for the odd k that 2 * count + 1 takes.
LnMilli(k) ==
    CASE k = 1 -> 0
      [] k = 3 -> 1099
      [] k = 5 -> 1609
      [] k = 7 -> 1946
      [] k = 9 -> 2197
      [] k = 11 -> 2398
      [] k = 13 -> 2565

\* BM25Okapi(tokenized_candidates).get_scores(query_tokens) with k1 = 1.5,
\* b = 0.75, epsilon = 0.25, in thousandths.  _calc_idf divides the idf sum by
\* the number of distinct words of the corpus: a corpus without any word
\* raises ZeroDivisionError.
BM25Scores(corpus, query) ==
    LET N     == Len(corpus)
        vocab == UNION { { corpus[i][k] : k \in DOMAIN corpus[i] } : i \in 1..N }
        L     == SeqSum([i \in 1..N |-> Len(corpus[i])])
        nd(w) == Cardinality({ i \in 1..N : Freq(corpus[i], w) > 0 })
        \* math.log(corpus_size - freq + 0.5) - math.log(freq + 0.5)
        raw(w) == LnMilli(2 * (N - nd(w)) + 1) - LnMilli(2 * nd(w) + 1)
        words == CHOOSE ws \in [1..Cardinality(vocab) -> vocab] :
                     \A i, j \in DOMAIN ws : i # j => ws[i] # ws[j]
        idf_sum == SeqSum([i \in DOMAIN words |-> raw(words[i])])
        \* eps = epsilon * average_idf
        eps   == idf_sum \div (4 * Cardinality(vocab))
        idf(w) == IF w \notin vocab THEN 0 ELSE IF raw(w) < 0 THEN eps ELSE raw(w)
        \* idf * f * (k1 + 1) / (f + k1 * (1 - b + b * doc_len / avgdl)),
        \* numerator and denominator multiplied by 8 * L
        term(i, q) ==
            LET f == Freq(corpus[i], q)
            IN  IF f = 0 THEN 0
                ELSE (idf(q) * 20 * f * L) \div (8 * f * L + 3 * L + 9 * Len(corpus[i]) * N)
    IN  IF vocab = {}
        THEN [raised |-> TRUE, scores |-> <<>>]
        ELSE [raised |-> FALSE,
              scores |-> Array([i \in 1..N |->
                            SeqSum([k \in DOMAIN query |-> term(i, query[k])])])]

(***************************************************************************)
(* HybridRetriever.retrieve                                                *)
(***************************************************************************)
\* bm25_weight is counted in tenths: w stands for w / WeightDen.
WeightDen == 10
DefaultWeight == 5

\* The scores left as they are, on the scale each signal comes in.
MinMaxUnscaled(xs) ==
    Array([i \in DOMAIN xs |-> [num |-> xs[i], den |-> 1, eps |-> 0]])

\* (x - x.min()) / (x.max() - x.min() + 1e-10) for two scores or more, 1.0 for
\* one: num / (den + eps * 1e-10).
MinMax(xs) ==
    IF Len(xs) > 1
    THEN LET lo == SeqMin(xs)
             hi == SeqMax(xs)
         IN  Array([i \in DOMAIN xs |-> [num |-> xs[i] - lo, den |-> hi - lo, eps |-> 1]])
    ELSE <<[num |-> 1, den |-> 1, eps |-> 0]>>

\* The two weights exchanged.
CombineSwapped(w, semantic, bm25) ==
    << w * semantic.num * bm25.den + (WeightDen - w) * bm25.num * semantic.den,
       w * semantic.num * bm25.eps + (WeightDen - w) * bm25.num * semantic.eps >>

\* (1 - bm25_weight) * semantic + bm25_weight * bm25, times the positive
\* number WeightDen * (semantic.den + semantic.eps * 1e-10)
\*                  * (bm25.den + bm25.eps * 1e-10), the same for the whole pool.
Combine(w, semantic, bm25) ==
    << (WeightDen - w) * semantic.num * bm25.den + w * bm25.num * semantic.den,
       (WeightDen - w) * semantic.num * bm25.eps + w * bm25.num * semantic.eps >>

\* combined_scores.argsort(): an order of the indices in which the scores
\* ascend.  numpy's default sort is not stable: equal scores come in any order.
Argsort(combined) ==
    { o \in Perms(Len(combined)) :
        \A i \in 1..Len(combined) - 1 : EpsLeq(combined[o[i]], combined[o[i + 1]]) }

\* xs[:m] for m >= 0
Take(xs, m) == SubSeq(xs, 1, Min(m, Len(xs)))

\* The rest of retrieve without the early return on an empty search result.
RerankWithoutEmptyCheck(search_results, keyword_query, bm25_weight, final_top_m) ==
    LET n == Len(search_results)
        candidates == Array([i \in 1..n |-> search_results[i].payload])
        semantic_scores == MinMax(Array([i \in 1..n |-> search_results[i].score]))
        bm25 == BM25Scores(Array([i \in 1..n |-> Split(candidates[i].text)]),
                           Split(keyword_query))
        bm25_scores == MinMax(bm25.scores)
        combined_scores ==
            Array([i \in 1..n |-> Combine(bm25_weight, semantic_scores[i], bm25_scores[i])])
    IN  IF bm25.raised
        THEN { [raised |-> TRUE, ranked |-> FALSE, search_results |-> search_results,
                semantic_scores |-> semantic_scores, bm25_scores |-> <<>>,
                combined_scores |-> <<>>, top_indices |-> <<>>, result |-> <<>>] }
        ELSE { LET top_indices == Take(Reverse(order), final_top_m)
               IN  [raised |-> FALSE, ranked |-> TRUE, search_results |-> search_results,
                    semantic_scores |-> semantic_scores, bm25_scores |-> bm25_scores,
                    combined_scores |-> combined_scores, top_indices |-> top_indices,
                    result |-> Array([k \in DOMAIN top_indices |->
                                         candidates[top_indices[k]]])]
               : order \in Argsort(combined_scores) }

\* The rest of retrieve once the search returned search_results: every
\* outcome it may have, one for each order argsort may return.
Rerank(search_results, keyword_query, bm25_weight, final_top_m) ==
    LET n == Len(search_results)
        candidates == Array([i \in 1..n |-> search_results[i].payload])
        semantic_scores == MinMax(Array([i \in 1..n |-> search_results[i].score]))
        bm25 == BM25Scores(Array([i \in 1..n |-> Split(candidates[i].text)]),
                           Split(keyword_query))
        bm25_scores == MinMax(bm25.scores)
        combined_scores ==
            Array([i \in 1..n |-> Combine(bm25_weight, semantic_scores[i], bm25_scores[i])])
    IN  IF n = 0
        THEN \* if not search_results: return []
             { [raised |-> FALSE, ranked |-> FALSE, search_results |-> search_results,
                semantic_scores |-> <<>>, bm25_scores |-> <<>>, combined_scores |-> <<>>,
                top_indices |-> <<>>, result |-> <<>>] }
        ELSE IF bm25.raised
        THEN { [raised |-> TRUE, ranked |-> FALSE, search_results |-> search_results,
                semantic_scores |-> semantic_scores, bm25_scores |-> <<>>,
                combined_scores |-> <<>>, top_indices |-> <<>>, result |-> <<>>] }
        ELSE { LET top_indices == Take(Reverse(order), final_top_m)
               IN  [raised |-> FALSE, ranked |-> TRUE, search_results |-> search_results,
                    semantic_scores |-> semantic_scores, bm25_scores |-> bm25_scores,
                    combined_scores |-> combined_scores, top_indices |-> top_indices,
                    result |-> Array([k \in DOMAIN top_indices |->
                                         candidates[top_indices[k]]])]
               : order \in Argsort(combined_scores) }

\* HybridRetriever.retrieve: every outcome it may have.  sim stands for the
\* semantic query: the similarity of its embedding to each stored vector.
retrieve(coll, sim, keyword_query, metadata_filter, bm25_weight, top_k, final_top_m) ==
    UNION { Rerank(search_results, keyword_query, bm25_weight, final_top_m)
              : search_results \in Search(coll, sim, top_k, metadata_filter) }

(***************************************************************************)
(* RAGPipeline.ask                                                         *)
(***************************************************************************)
AskTopK == 200
AskFinalM == 20

\* RAGPipeline.ask: every outcome it may have.  `clarified` is what the
\* clarifier's reply parsed to, [ok |-> FALSE] when it did not parse.  The
\* steps are the collaborators called, in order; an exception in retrieve is
\* not caught and leaves ask.
ask(coll, query, clarified, sim) ==
    LET keyword_query ==
            IF clarified.ok THEN Join(<<" ">>, clarified.search_terms) ELSE query
    IN  { [ retrieval |-> r,
            keyword_query |-> keyword_query,
            steps |-> IF r.raised \/ r.result = <<>>
                      THEN <<"clarifier", "retriever">>
                      ELSE <<"clarifier", "retriever", "synthesizer">>,
            raised |-> r.raised,
            level |-> IF r.raised THEN "none"
                      ELSE IF r.result = <<>> THEN "warning" ELSE "success",
            answer |-> IF r.raised THEN "none"
                       ELSE IF r.result = <<>>
                            THEN "I could not find any relevant information to answer your question."
                            ELSE "synthesis" ]
          : r \in retrieve(coll, sim, keyword_query, NoFilter,
                           DefaultWeight, AskTopK, AskFinalM) }

(***************************************************************************)
(* The front ends' values: the registry of indexes, the spinner             *)
(***************************************************************************)
\* Python's None.
PyNone == "None"

\* rags.json does not exist.
NoFile == [type |-> "absent"]

\* A Python list of registry entries {"name": ..., "collection_name": ...}.
RagList(items) == [type |-> "list", items |-> items]

\* The dict read_rags_config returns when rags.json does not exist:
\* {"rags": [], "active_rag": None}.  Iterating it yields its keys.
FreshConfig == [type |-> "dict", items |-> <<"rags", "active_rag">>]

\* utils.read_rags_config
read_rags_config(file) == IF file = NoFile THEN FreshConfig ELSE file

\* spinner_running = False, _spinner_task = None, status_text = "Ready"
SpinnerAtRest ==
    [spinner_running |-> FALSE, task |-> PyNone, status_text |-> "Ready", unwinding |-> 0]

NoCollections == [c \in {} |-> EmptyCollection]

NoCli == [op |-> "none"]

\* No front end is running.
FrontAtRest ==
    /\ rags_file = NoFile
    /\ rags_config = FreshConfig
    /\ active_rag_name = PyNone
    /\ store = NoCollections
    /\ spinner = SpinnerAtRest
    /\ tasks = <<>>
    /\ uuids = 0
    /\ cli = NoCli

(***************************************************************************)
(* The ingestion state machine                                             *)
(***************************************************************************)
NoLast ==
    [ runs |-> 0, documents |-> <<>>, fault |-> NoFault, before |-> EmptyCollection,
      first |-> EmptyCollection, returned |-> TRUE, level |-> "none",
      all_chunks |-> <<>>, all_metadata |-> <<>>, embeds |-> 0, upserts |-> 0 ]

NoRet == [op |-> "none"]

\* The collection is persisted under VECTOR_STORAGE_PATH: a process starts on
\* what earlier runs ingested, here nothing or any one document.
SeedCollections ==
    {EmptyCollection}
      \cup { ingest(EmptyCollection, <<d>>, NoFault).collection : d \in IngestDocs }

Init ==
    /\ collection \in SeedCollections
    /\ phase = "idle"
    /\ last = NoLast
    /\ ret = NoRet
    /\ jobs = <<>>
    /\ FrontAtRest

\* One call of RAGPipeline.ingest.
Ingest(documents, fault) ==
    /\ phase = "idle"
    /\ LET r == ingest(collection, documents, fault)
       IN  /\ collection' = r.collection
           /\ last' = [ runs |-> 1, documents |-> documents, fault |-> fault,
                        before |-> collection, first |-> r.collection,
                        returned |-> r.returned, level |-> r.level,
                        all_chunks |-> r.all_chunks, all_metadata |-> r.all_metadata,
                        embeds |-> r.embeds, upserts |-> r.upserts ]
    /\ phase' = "ingested"
    /\ UNCHANGED <<ret, jobs, front>>

\* The same path ingested once more, after a first call that succeeded.
IngestAgain ==
    /\ phase = "ingested"
    /\ last.returned
    /\ LET r == ingest(collection, last.documents, NoFault)
       IN  /\ collection' = r.collection
           /\ last' = [last EXCEPT !.runs = 2, !.returned = r.returned,
                                   !.level = r.level, !.embeds = r.embeds,
                                   !.upserts = r.upserts]
    /\ phase' = "reingested"
    /\ UNCHANGED <<ret, jobs, front>>

\* The runs a caller may start on a collection at rest.
IngestCall ==
    /\ phase = "idle"
    /\ \E documents \in IngestBatches : \E fault \in Faults(documents) :
           Ingest(documents, fault)

Next == IngestCall \/ IngestAgain

Spec == Init /\ [][Next]_vars

(***************************************************************************)
(* The retrieval state machine                                             *)
(***************************************************************************)
\* Candidates per collection queried.
MaxPool == 3
\* Similarity scores are 0, SemStep, ..., MaxRaw * SemStep thousandths.
MaxRaw == 2
SemStep == 400

\* The chunk texts of the collections queried: one without a word among them.
RetrievalTexts ==
    { <<>>, <<"a">>, <<"b">>, <<"a", " ", "b">> }

HasB(text) == \E k \in DOMAIN text : text[k] = "b"

\* The members of a finite set, listed once each.
ListOf(S) ==
    CHOOSE xs \in [1..Cardinality(S) -> S] : \A i, j \in DOMAIN xs : i # j => xs[i] # xs[j]

ElementsOf(texts) ==
    LET xs == ListOf(texts)
    IN  [i \in DOMAIN xs |-> [category |-> "NarrativeText", text |-> xs[i]]]

\* The collections queried: what ingesting two source files leaves, the texts
\* with a "b" in n.py and the others in m.py.
RetrievalSeeds ==
    { ingest(EmptyCollection,
             << [file_path |-> <<"m", ".py">>,
                 elements |-> ElementsOf({ t \in T : ~HasB(t) })],
                [file_path |-> <<"n", ".py">>,
                 elements |-> ElementsOf({ t \in T : HasB(t) })] >>,
             NoFault).collection
        : T \in { T \in SUBSET RetrievalTexts : Cardinality(T) <= MaxPool } }

\* One markdown file of three sections, each a heading of its own; the word
\* "a" stands in section k only.
SectionsDoc(k) ==
    [ file_path |-> <<"r", ".md">>,
      elements  |-> [ i \in 1..3 |->
                        [ category |-> "Title",
                          text |-> IF i = k THEN <<"a">>
                                   ELSE IF i = 1 \/ (i = 2 /\ k = 1) THEN <<"b">>
                                   ELSE <<"b", " ", "b">> ] ] ]

\* The collections that ingesting such a file leaves.
SectionSeeds ==
    { ingest(EmptyCollection, <<SectionsDoc(k)>>, NoFault).collection : k \in 1..3 }

KeywordQueries == { <<>>, <<" ">>, <<"a">>, <<"a", " ", "b">> }
SemScores == { k * SemStep : k \in 0..MaxRaw }
Weights == {0, 2, DefaultWeight, 6, 8, WeightDen}
TopKs == {-1, 0, 2, AskTopK}
FinalMs == {1, 2, AskFinalM}
Filters == { NoFilter, [key |-> "file_path", value |-> <<"m", ".py">>] }

InitRetrieve ==
    /\ collection \in RetrievalSeeds \cup SectionSeeds
    /\ phase = "idle"
    /\ last = NoLast
    /\ ret = NoRet
    /\ jobs = <<>>
    /\ FrontAtRest

\* A retrieve that takes the points it returns out of the collection.
RetrieveConsuming(sim, keyword_query, metadata_filter, bm25_weight, top_k, final_top_m) ==
    /\ phase = "idle"
    /\ \E r \in retrieve(collection, sim, keyword_query, metadata_filter,
                         bm25_weight, top_k, final_top_m) :
           /\ ret' = [ op |-> "retrieve", sim |-> sim, keyword_query |-> keyword_query,
                       metadata_filter |-> metadata_filter, bm25_weight |-> bm25_weight,
                       top_k |-> top_k, final_top_m |-> final_top_m,
                       retrieval |-> r, raised |-> r.raised,
                       steps |-> <<"retriever">>, level |-> "none", answer |-> "none" ]
           /\ collection' =
                  [ id \in DOMAIN collection
                             \ { ChunkHash(r.result[k].text) : k \in DOMAIN r.result }
                      |-> collection[id] ]
    /\ phase' = "queried"
    /\ UNCHANGED <<last, jobs, front>>

\* One call of HybridRetriever.retrieve.
Retrieve(sim, keyword_query, metadata_filter, bm25_weight, top_k, final_top_m) ==
    /\ phase = "idle"
    /\ \E r \in retrieve(collection, sim, keyword_query, metadata_filter,
                         bm25_weight, top_k, final_top_m) :
           ret' = [ op |-> "retrieve", sim |-> sim, keyword_query |-> keyword_query,
                    metadata_filter |-> metadata_filter, bm25_weight |-> bm25_weight,
                    top_k |-> top_k, final_top_m |-> final_top_m,
                    retrieval |-> r, raised |-> r.raised,
                    steps |-> <<"retriever">>, level |-> "none", answer |-> "none" ]
    /\ phase' = "queried"
    /\ UNCHANGED <<collection, last, jobs, front>>

\* One call of RAGPipeline.ask.
Ask(query, clarified, sim) ==
    /\ phase = "idle"
    /\ \E a \in ask(collection, query, clarified, sim) :
           ret' = [ op |-> "ask", sim |-> sim, keyword_query |-> a.keyword_query,
                    metadata_filter |-> NoFilter, bm25_weight |-> DefaultWeight,
                    top_k |-> AskTopK, final_top_m |-> AskFinalM,
                    retrieval |-> a.retrieval, raised |-> a.raised,
                    steps |-> a.steps, level |-> a.level, answer |-> a.answer ]
    /\ phase' = "queried"
    /\ UNCHANGED <<collection, last, jobs, front>>

\* What the clarifier's reply parses to.
Clarifications ==
    { [ok |-> FALSE, search_terms |-> <<>>] }
      \cup { [ok |-> TRUE, search_terms |-> ts] : ts \in { <<>>, <<<<"a">>>>, <<<<"a">>, <<"b">>>> } }

\* The calls a caller may make on a collection not yet queried.
RetrieveCall ==
    /\ phase = "idle"
    /\ \E sim \in [DOMAIN collection -> SemScores], keyword_query \in KeywordQueries,
          metadata_filter \in Filters, bm25_weight \in Weights,
          top_k \in TopKs, final_top_m \in FinalMs :
           Retrieve(sim, keyword_query, metadata_filter, bm25_weight, top_k, final_top_m)

AskCall ==
    /\ phase = "idle"
    /\ \E query \in KeywordQueries, clarified \in Clarifications,
          sim \in [DOMAIN collection -> SemScores] :
           Ask(query, clarified, sim)

NextRetrieve == RetrieveCall \/ AskCall

SpecRetrieve == InitRetrieve /\ [][NextRetrieve]_vars

(***************************************************************************)
(* The toolkit state machine: the store called directly, and a path loaded *)
(* and ingested                                                            *)
(***************************************************************************)
\* Chunks per direct call of the store.
MaxStore == 2

StoreChunks == SeqsUpTo({ <<"a">>, <<"b">> }, MaxStore)

\* k vectors as an embedder hands them back for `chunks`: one per chunk as
\* far as k goes, and further ones beyond.
Vectors(chunks, k) ==
    [ i \in 1..k |-> Encode(IF i <= Len(chunks) THEN chunks[i] ELSE <<"a">>) ]

\* k metadata dicts as ingest builds them for a file.
MetadataList(k) ==
    DocMetadata([file_path |-> <<"m", ".py">>, elements |-> <<>>], [i \in 1..k |-> <<>>])

\* One call of IndexingToolkit.deduplicate_and_store.
Store(chunks, embeddings, metadata_list) ==
    /\ phase = "idle"
    /\ LET r == deduplicate_and_store(collection, chunks, embeddings, metadata_list)
       IN  /\ collection' = r.collection
           /\ last' = [ op |-> "store", chunks |-> chunks, embeddings |-> embeddings,
                        metadata_list |-> metadata_list, before |-> collection,
                        raised |-> r.raised, upserts |-> r.upserts,
                        points |-> r.points ]
    /\ phase' = "stored"
    /\ UNCHANGED <<ret, jobs, front>>

\* The files found under a path: each parses into elements or fails to.
LoadFiles ==
    { [file_path |-> p, parses |-> TRUE, elements |-> es] :
          p \in IngestPaths, es \in SeqsUpTo(IngestElements, MaxElems) }
      \cup { [file_path |-> p, parses |-> FALSE, elements |-> <<>>] : p \in IngestPaths }

\* What os.walk finds: no file, one file or two.
LoadWalks ==
    {<<>>} \cup { <<f>> : f \in LoadFiles }
           \cup { <<p[1], p[2]>> :
                    p \in { q \in LoadFiles \X LoadFiles : q[1].file_path # q[2].file_path } }

RECURSIVE LoadWithoutCatch(_)
\* A load in which the first file that fails to parse ends the walk with its
\* exception.
LoadWithoutCatch(files) ==
    IF files = <<>> THEN [docs |-> <<>>, errors |-> <<>>, raised |-> FALSE]
    ELSE IF ~Head(files).parses
         THEN [docs |-> <<>>, errors |-> <<>>, raised |-> TRUE]
         ELSE LET rest == LoadWithoutCatch(Tail(files))
              IN  [docs |-> <<[file_path |-> Head(files).file_path,
                               elements |-> Head(files).elements]>> \o rest.docs,
                   errors |-> rest.errors, raised |-> rest.raised]

RECURSIVE load_from_path(_)
\* IngestionToolkit.load_from_path over a directory: partition() is tried on
\* each file; a file that fails is logged at error level and skipped.
load_from_path(files) ==
    IF files = <<>> THEN [docs |-> <<>>, errors |-> <<>>, raised |-> FALSE]
    ELSE LET rest == load_from_path(Tail(files))
         IN  IF Head(files).parses
             THEN [docs |-> <<[file_path |-> Head(files).file_path,
                               elements |-> Head(files).elements]>> \o rest.docs,
                   errors |-> rest.errors, raised |-> rest.raised]
             ELSE [docs |-> rest.docs,
                   errors |-> <<Head(files).file_path>> \o rest.errors,
                   raised |-> rest.raised]

\* One call of RAGPipeline.ingest on a directory: the load, then the rest of
\* ingest on the documents loaded.  An exception out of the load is caught
\* by ingest's except clause.
LoadAndIngest(files) ==
    /\ phase = "idle"
    /\ LET loaded == load_from_path(files)
           r == IF loaded.raised
                THEN [collection |-> collection, returned |-> FALSE, level |-> "error",
                      all_chunks |-> <<>>, all_metadata |-> <<>>,
                      embeds |-> 0, upserts |-> 0]
                ELSE ingest(collection, loaded.docs, NoFault)
       IN  /\ collection' = r.collection
           /\ last' = [ op |-> "load", files |-> files, documents |-> loaded.docs,
                        errors |-> loaded.errors, before |-> collection,
                        returned |-> r.returned, level |-> r.level,
                        all_chunks |-> r.all_chunks, all_metadata |-> r.all_metadata,
                        embeds |-> r.embeds, upserts |-> r.upserts ]
    /\ phase' = "loaded"
    /\ UNCHANGED <<ret, jobs, front>>

StoreCall ==
    /\ phase = "idle"
    /\ \E chunks \in StoreChunks, n \in 0..MaxStore + 1, k \in 0..MaxStore :
           Store(chunks, Vectors(chunks, n), MetadataList(k))

\* An element that carries no text, as a page break does.
BlankElement == [category |-> "PageBreak", text |-> <<>>]

\* Source files and notebooks in which some element is blank.
BlankFiles ==
    { [file_path |-> p, parses |-> TRUE, elements |-> es] :
          p \in {<<"m", ".py">>, <<"n", ".ipynb">>},
          es \in { x \in SeqsUpTo(IngestElements \cup {BlankElement}, MaxElems) :
                     \E i \in DOMAIN x : x[i] = BlankElement } }

LoadCall ==
    /\ phase = "idle"
    /\ \E files \in LoadWalks \cup { <<f>> : f \in BlankFiles } : LoadAndIngest(files)

NextToolkit == StoreCall \/ LoadCall

SpecToolkit == Init /\ [][NextToolkit]_vars

(***************************************************************************)
(* Concurrent ingestion: the TUI starts each /ingest command as a          *)
(* background task that runs RAGPipeline.ingest in a thread of its own, on  *)
(* the one QdrantClient of the pipeline.  The store writes one point at a   *)
(* time; the writes of two upsert calls may interleave.                     *)
(***************************************************************************)
\* The collections the threads start on: empty, or holding one markdown file.
JobSeeds ==
    {EmptyCollection}
      \cup { ingest(EmptyCollection, <<d>>, NoFault).collection :
                d \in { x \in IngestDocs : x.file_path = <<"r", ".md">> } }

InitJobs ==
    /\ collection \in JobSeeds
    /\ phase = "idle"
    /\ last = NoLast
    /\ ret = NoRet
    /\ jobs = <<>>
    /\ FrontAtRest

\* handle_enter twice: two /ingest commands, each over one file, become two
\* background tasks.
Submit(d1, d2) ==
    /\ phase = "idle"
    /\ jobs' = << [pc |-> "start", documents |-> <<d1>>, points |-> <<>>],
                  [pc |-> "start", documents |-> <<d2>>, points |-> <<>>] >>
    /\ last' = [NoLast EXCEPT !.documents = <<d1, d2>>, !.before = collection]
    /\ phase' = "running"
    /\ UNCHANGED <<collection, ret, front>>

\* Thread t runs ingest up to the upsert call: chunks, metadata, embeddings
\* and the points built from them, all local to the thread.
Prepare(t) ==
    /\ phase = "running"
    /\ jobs[t].pc = "start"
    /\ LET all_chunks   == AllChunks(jobs[t].documents)
           all_metadata == AllMetadata(jobs[t].documents)
           points == deduplicate_and_store(EmptyCollection, all_chunks,
                                           embed_chunks(all_chunks), all_metadata).points
       IN  jobs' = [jobs EXCEPT ![t].points = points,
                                ![t].pc = IF points = <<>> THEN "done" ELSE "upsert"]
    /\ UNCHANGED <<collection, phase, last, ret, front>>

\* The store writes the next point of thread t's upsert call.
Put(t) ==
    /\ phase = "running"
    /\ jobs[t].pc = "upsert"
    /\ collection' = PutPoint(collection, Head(jobs[t].points))
    /\ jobs' = [jobs EXCEPT ![t].points = Tail(jobs[t].points),
                            ![t].pc = IF Tail(jobs[t].points) = <<>>
                                      THEN "done" ELSE "upsert"]
    /\ UNCHANGED <<phase, last, ret, front>>

SubmitCall ==
    /\ phase = "idle"
    /\ \E d1 \in IngestDocs, d2 \in IngestDocs : Submit(d1, d2)

NextJobs ==
    \/ SubmitCall
    \/ \E t \in DOMAIN jobs : Prepare(t)
    \/ \E t \in DOMAIN jobs : Put(t)

SpecJobs == InitJobs /\ [][NextJobs]_vars

(***************************************************************************)
(* The command-line tool (main.py): each run is a process of its own that  *)
(* reads rags.json, acts, and ends.                                        *)
(***************************************************************************)
IndexNames == {"x", "y"}

\* any(rag['name'] == name for rag in rags_config) and the like: indexing a
\* key of the dict, a str, with 'name' raises TypeError.
LookupRaises(config) == config.type = "dict"

\* The name of the first entry alone.
FirstNameOf(config) == { config.items[i].name : i \in DOMAIN config.items \cap {1} }

NamesOf(config) == { config.items[i].name : i \in DOMAIN config.items }

\* The None that next(..., None) returns, as a record.
NoRag == [name |-> PyNone, collection_name |-> 0]

\* next((rag for rag in rags_config if rag['name'] == name), None)
SelectedRag(config, name) ==
    IF name \in NamesOf(config)
    THEN config.items[CHOOSE i \in DOMAIN config.items :
                         /\ config.items[i].name = name
                         /\ \A j \in 1..i - 1 : config.items[j].name # name]
    ELSE NoRag

\* create_rag(args)
CliCreate(name) ==
    LET config == read_rags_config(rags_file)
    IN  /\ IF LookupRaises(config)
           THEN /\ cli' = [op |-> "create", name |-> name, outcome |-> "TypeError"]
                /\ UNCHANGED <<rags_file, uuids>>
           ELSE IF name \in NamesOf(config)
           THEN /\ cli' = [op |-> "create", name |-> name, outcome |-> "exists"]
                /\ UNCHANGED <<rags_file, uuids>>
           ELSE /\ rags_file' = RagList(Append(config.items,
                                    [name |-> name, collection_name |-> uuids + 1]))
                /\ uuids' = uuids + 1
                /\ cli' = [op |-> "create", name |-> name, outcome |-> "created"]
        /\ UNCHANGED <<back, rags_config, active_rag_name, store, spinner, tasks>>

\* accepted_file_types
AcceptedFileTypes ==
    { ".py", ".ipynb", ".md", ".mdx", ".rst", ".txt", ".json", ".yaml", ".yml", ".js",
      ".ts", ".java", ".cpp", ".c", ".go", ".rb", ".sh", ".html", ".xml", ".csv", ".tsv" }

\* The files a path given to the tool may lead to.
CliFiles == { <<"d", ".pdf">>, <<"e", ".PDF">>, <<"r", ".md">>, <<"m", ".py">> }

\* The files of a walk, listed in some order.
CliWalks == { ListOf(S) : S \in SUBSET CliFiles }

\* filtered_files
FilteredFiles(files) ==
    SelectSeq(files, LAMBDA f : \E ext \in AcceptedFileTypes : EndsWith(f, ext))

\* The loop over filtered_files: each file goes to the OCR reader or to the
\* general loader.
Processed(files, ocr) ==
    LET filtered == FilteredFiles(files)
    IN  [ i \in DOMAIN filtered |->
            [ file_path |-> filtered[i],
              via |-> IF ocr /\ Lower(SplitExt(filtered[i])) = ".pdf"
                      THEN "MistralReader" ELSE "UnstructuredIO" ] ]

\* ingest_data(args), with --name given.  What the retriever writes into the
\* index's storage is camel's business and is kept as the list of files
\* handed to it.
CliIngest(name, files, ocr) ==
    LET config == read_rags_config(rags_file)
        run(outcome, processed) ==
            [ op |-> "ingest", name |-> name, files |-> files, ocr |-> ocr,
              outcome |-> outcome, processed |-> processed ]
    IN  /\ cli' = IF config.type = "list" /\ config.items = <<>>
                  THEN run("no indexes", <<>>)
                  ELSE IF LookupRaises(config) THEN run("TypeError", <<>>)
                  ELSE IF SelectedRag(config, name) = NoRag THEN run("not found", <<>>)
                  ELSE IF files = <<>> THEN run("invalid path", <<>>)
                  ELSE run("completed", Processed(files, ocr))
        /\ UNCHANGED <<back, rags_file, rags_config, active_rag_name, store, spinner,
                       tasks, uuids>>

\* rags.json as earlier runs left it: absent, or a list of entries.
RegistrySeeds ==
    { NoFile, RagList(<<>>),
      RagList(<<[name |-> "x", collection_name |-> 1]>>) }

InitCli ==
    /\ collection = EmptyCollection
    /\ phase = "idle"
    /\ last = NoLast
    /\ ret = NoRet
    /\ jobs = <<>>
    /\ rags_file \in RegistrySeeds
    /\ uuids = IF rags_file = NoFile \/ rags_file.items = <<>> THEN 0 ELSE 1
    /\ rags_config = FreshConfig
    /\ active_rag_name = PyNone
    /\ store = NoCollections
    /\ spinner = SpinnerAtRest
    /\ tasks = <<>>
    /\ cli = NoCli

CliCreateCall == \E name \in IndexNames : CliCreate(name)

CliIngestCall ==
    \E name \in IndexNames, files \in CliWalks, ocr \in BOOLEAN :
        CliIngest(name, files, ocr)

NextCli == CliCreateCall \/ CliIngestCall

SpecCli == InitCli /\ [][NextCli]_vars

(***************************************************************************)
(* The TUI (tui.py).  handle_enter turns each command entered into a        *)
(* background task of the one event loop; a task runs without interruption  *)
(* from one await that suspends it to the next.  update_stats only reads    *)
(* and is left out.                                                         *)
(***************************************************************************)
\* Commands entered in one session.
MaxTasks == 3

\* The commands entered and their one argument.
Commands ==
    { <<"/create", n>> : n \in IndexNames }
      \cup { <<"/set", n>> : n \in IndexNames }
      \cup { <<"/list", "">> }
      \cup { <<"/ingest", p>> : p \in {"p", "missing"} }
      \cup { <<"/ask", "a">> }

\* What load_from_path finds under the path "p": one source file.
PathDocuments == << [file_path |-> <<"m", ".py">>,
                     elements  |-> <<[category |-> "Title", text |-> <<"a">>]>>] >>

\* asyncio.create_task(handle_command(text)): a task that has yet to run.
NewTask(command, arg) ==
    [ command |-> command, arg |-> arg, pc |-> "start", active |-> PyNone,
      spun |-> FALSE, stopped |-> FALSE, calls |-> <<>>, reply |-> "none",
      semantic_query |-> <<>>, keyword_query |-> <<>>, found |-> 0 ]

\* start_spinner: the status text is set, and a spinner_loop task is
\* created unless one is there.
start_spinner(sp) ==
    [sp EXCEPT !.status_text = "working",
               !.task = IF sp.task = PyNone THEN "pending" ELSE sp.task]

\* stop_spinner.  A loop that was running unwinds later, through its finally
\* clause; a task cancelled before its first step never runs.
stop_spinner(sp) ==
    [ spinner_running |-> FALSE, task |-> PyNone, status_text |-> "Ready",
      unwinding |-> sp.unwinding + (IF sp.task = "looping" THEN 1 ELSE 0) ]

\* spinner_loop up to its first await.
SpinnerBegin ==
    /\ spinner.task = "pending"
    /\ spinner' = [spinner EXCEPT !.task = "looping", !.spinner_running = TRUE,
                                  !.status_text = "working"]
    /\ UNCHANGED <<back, rags_file, rags_config, active_rag_name, store, tasks, uuids, cli>>

\* One more turn of the loop, after something else reset the status text.
SpinnerTick ==
    /\ spinner.task = "looping"
    /\ spinner.spinner_running
    /\ spinner.status_text # "working"
    /\ spinner' = [spinner EXCEPT !.status_text = "working"]
    /\ UNCHANGED <<back, rags_file, rags_config, active_rag_name, store, tasks, uuids, cli>>

\* The finally clause of a cancelled spinner_loop.
SpinnerUnwind ==
    /\ spinner.unwinding > 0
    /\ spinner' = [spinner EXCEPT !.status_text = "Ready",
                                  !.unwinding = spinner.unwinding - 1]
    /\ UNCHANGED <<back, rags_file, rags_config, active_rag_name, store, tasks, uuids, cli>>

\* handle_enter
Enter(command, arg) ==
    /\ Len(tasks) < MaxTasks
    /\ tasks' = Append(tasks, NewTask(command, arg))
    /\ UNCHANGED <<back, rags_file, rags_config, active_rag_name, store, spinner, uuids, cli>>

\* Task t is the command `command` and has yet to take its first step.
AtStart(t, command) == tasks[t].pc = "start" /\ tasks[t].command = command

\* Task t's handler ends by an exception that nothing in it catches.
Failed(t, calls) ==
    tasks' = [tasks EXCEPT ![t].pc = "failed", ![t].active = active_rag_name,
                           ![t].calls = calls]

\* A /create that enters the index in the registry before it asks the store
\* for the collection, and leaves it there when the store refuses.
TuiCreateRegisteringFirst(t, created) ==
    /\ AtStart(t, "/create")
    /\ LET name == tasks[t].arg
           collection_name == uuids + 1
       IN  IF LookupRaises(rags_config)
           THEN /\ Failed(t, <<>>)
                /\ UNCHANGED <<rags_file, rags_config, store, spinner, uuids>>
           ELSE IF name \in NamesOf(rags_config)
           THEN /\ tasks' = [tasks EXCEPT ![t].pc = "done", ![t].active = active_rag_name]
                /\ UNCHANGED <<rags_file, rags_config, store, spinner, uuids>>
           ELSE /\ uuids' = collection_name
                /\ spinner' = stop_spinner(start_spinner(spinner))
                /\ tasks' = [tasks EXCEPT ![t].pc = "done", ![t].active = active_rag_name,
                                          ![t].spun = TRUE, ![t].stopped = TRUE,
                                          ![t].calls = <<"recreate_collection">>,
                                          ![t].reply = IF created THEN "created" ELSE "raised"]
                /\ LET new_rag == [name |-> name, collection_name |-> collection_name]
                       config  == RagList(Append(rags_config.items, new_rag))
                   IN  /\ rags_config' = config
                       /\ rags_file' = config
                       /\ IF created
                          THEN store' = [c \in DOMAIN store \cup {collection_name} |->
                                           IF c = collection_name THEN EmptyCollection
                                           ELSE store[c]]
                          ELSE UNCHANGED store
    /\ UNCHANGED <<back, active_rag_name, cli>>

\* /create <name>; `created` tells whether recreate_collection succeeds.
TuiCreate(t, created) ==
    /\ AtStart(t, "/create")
    /\ LET name == tasks[t].arg
           collection_name == uuids + 1
       IN  IF LookupRaises(rags_config)
           THEN /\ Failed(t, <<>>)
                /\ UNCHANGED <<rags_file, rags_config, store, spinner, uuids>>
           ELSE IF name \in NamesOf(rags_config)
           THEN /\ tasks' = [tasks EXCEPT ![t].pc = "done", ![t].active = active_rag_name]
                /\ UNCHANGED <<rags_file, rags_config, store, spinner, uuids>>
           ELSE /\ uuids' = collection_name
                /\ spinner' = stop_spinner(start_spinner(spinner))
                /\ tasks' = [tasks EXCEPT ![t].pc = "done", ![t].active = active_rag_name,
                                          ![t].spun = TRUE, ![t].stopped = TRUE,
                                          ![t].calls = <<"recreate_collection">>,
                                          ![t].reply = IF created THEN "created" ELSE "raised"]
                /\ IF created
                   THEN LET new_rag == [name |-> name, collection_name |-> collection_name]
                            config  == RagList(Append(rags_config.items, new_rag))
                        IN  /\ store' = [c \in DOMAIN store \cup {collection_name} |->
                                           IF c = collection_name THEN EmptyCollection
                                           ELSE store[c]]
                            /\ rags_config' = config
                            /\ rags_file' = config
                   ELSE UNCHANGED <<rags_file, rags_config, store>>
    /\ UNCHANGED <<back, active_rag_name, cli>>

\* /list
TuiList(t) ==
    /\ AtStart(t, "/list")
    /\ IF LookupRaises(rags_config)
       THEN Failed(t, <<>>)
       ELSE tasks' = [tasks EXCEPT ![t].pc = "done", ![t].active = active_rag_name]
    /\ UNCHANGED <<back, rags_file, rags_config, active_rag_name, store, spinner, uuids, cli>>

\* A /set that takes any name, registered or not.
TuiSetUnchecked(t) ==
    /\ AtStart(t, "/set")
    /\ IF LookupRaises(rags_config)
       THEN Failed(t, <<>>) /\ UNCHANGED active_rag_name
       ELSE /\ tasks' = [tasks EXCEPT ![t].pc = "done", ![t].active = active_rag_name]
            /\ active_rag_name' = tasks[t].arg
    /\ UNCHANGED <<back, rags_file, rags_config, store, spinner, uuids, cli>>

\* /set <name>
TuiSet(t) ==
    /\ AtStart(t, "/set")
    /\ IF LookupRaises(rags_config)
       THEN Failed(t, <<>>) /\ UNCHANGED active_rag_name
       ELSE /\ tasks' = [tasks EXCEPT ![t].pc = "done", ![t].active = active_rag_name]
            /\ active_rag_name' = IF tasks[t].arg \in NamesOf(rags_config)
                                  THEN tasks[t].arg ELSE active_rag_name
    /\ UNCHANGED <<back, rags_file, rags_config, store, spinner, uuids, cli>>

\* The checks /ingest and /ask make before they turn to the pipeline: the
\* task ends there ("done" or "failed"), or goes on ("go").
Admission(path_exists) ==
    IF active_rag_name = PyNone THEN "done"
    ELSE IF LookupRaises(rags_config) THEN "failed"
    ELSE IF SelectedRag(rags_config, active_rag_name) = NoRag THEN "done"
    ELSE IF ~path_exists THEN "done"
    ELSE "go"

\* /ingest <path> up to `await asyncio.to_thread(pipeline.ingest, ...)`.
TuiIngest(t) ==
    /\ AtStart(t, "/ingest")
    /\ LET admitted == Admission(tasks[t].arg # "missing")
       IN  IF admitted = "go"
           THEN /\ spinner' = start_spinner(spinner)
                /\ tasks' = [tasks EXCEPT ![t].pc = "ingesting",
                                          ![t].active = active_rag_name,
                                          ![t].spun = TRUE, ![t].calls = <<"ingest">>]
           ELSE /\ tasks' = [tasks EXCEPT ![t].pc = admitted, ![t].active = active_rag_name]
                /\ UNCHANGED spinner
    /\ UNCHANGED <<back, rags_file, rags_config, active_rag_name, store, uuids, cli>>

\* pipeline.ingest in its thread, and the rest of the handler after it.  The
\* toolkits are built before the try block: when that fails ingest raises
\* and the handler ends there.  A collection the store does not have makes
\* the upsert raise inside the try block.
TuiIngested(t, fault) ==
    /\ tasks[t].pc = "ingesting"
    /\ LET collection_name == SelectedRag(rags_config, tasks[t].active).collection_name
       IN  IF fault = "toolkit"
           THEN /\ tasks' = [tasks EXCEPT ![t].pc = "failed", ![t].reply = "raised"]
                /\ UNCHANGED <<store, spinner>>
           ELSE /\ spinner' = stop_spinner(spinner)
                /\ IF collection_name \in DOMAIN store
                   THEN LET r == ingest(store[collection_name], PathDocuments, NoFault)
                        IN  /\ store' = [store EXCEPT ![collection_name] = r.collection]
                            /\ tasks' = [tasks EXCEPT ![t].pc = "done", ![t].stopped = TRUE,
                                             ![t].reply = IF r.returned THEN "True" ELSE "False"]
                   ELSE /\ tasks' = [tasks EXCEPT ![t].pc = "done", ![t].stopped = TRUE,
                                                  ![t].reply = "False"]
                        /\ UNCHANGED store
    /\ UNCHANGED <<back, rags_file, rags_config, active_rag_name, uuids, cli>>

\* /ask <query> up to `await self.clarification_agent.step(...)` in
\* RAGPipeline.ask.
TuiAsk(t) ==
    /\ AtStart(t, "/ask")
    /\ LET admitted == Admission(TRUE)
       IN  IF admitted = "go"
           THEN /\ spinner' = start_spinner(spinner)
                /\ tasks' = [tasks EXCEPT ![t].pc = "clarifying",
                                          ![t].active = active_rag_name,
                                          ![t].spun = TRUE, ![t].calls = <<"clarifier">>]
           ELSE /\ tasks' = [tasks EXCEPT ![t].pc = admitted, ![t].active = active_rag_name]
                /\ UNCHANGED spinner
    /\ UNCHANGED <<back, rags_file, rags_config, active_rag_name, store, uuids, cli>>

\* What comes back from the clarifier: an exception; a reply that json.loads
\* or the key lookups reject (JSONDecodeError, KeyError); a reply that parses
\* to something other than a dict (TypeError); a reply that parses.
Replies ==
    { [kind |-> k, refined_query |-> <<>>, search_terms |-> <<>>] :
         k \in {"raised", "unparsable", "TypeError"} }
      \cup { [kind |-> "parsed", refined_query |-> <<"b">>, search_terms |-> ts] :
                ts \in { <<>>, <<<<"a">>>> } }

\* The queries taken from the reply whether or not it parsed.
QueriesWithoutFallback(reply, query) ==
    [ refined_query |-> reply.refined_query,
      keyword_query |-> Join(<<" ">>, reply.search_terms) ]

\* refined_query and keyword_query after the try block that parses the
\* reply: the except clause falls back to the original query for both.
ClarifiedQueries(reply, query) ==
    IF reply.kind = "parsed"
    THEN [ refined_query |-> reply.refined_query,
           keyword_query |-> Join(<<" ">>, reply.search_terms) ]
    ELSE [ refined_query |-> query, keyword_query |-> query ]

\* RAGPipeline.ask from the clarifier's reply to the call of the synthesizer
\* or to its end, and the handler after it when ask returns.
TuiClarified(t, reply, sim) ==
    /\ tasks[t].pc = "clarifying"
    /\ LET query == <<tasks[t].arg>>
           collection_name == SelectedRag(rags_config, tasks[t].active).collection_name
           refined_query == ClarifiedQueries(reply, query).refined_query
           keyword_query == ClarifiedQueries(reply, query).keyword_query
           asked == [tasks[t] EXCEPT !.reply = reply.kind,
                                     !.semantic_query = refined_query,
                                     !.keyword_query = keyword_query,
                                     !.calls = <<"clarifier", "retriever">>]
       IN  IF reply.kind \in {"raised", "TypeError"}
           THEN /\ tasks' = [tasks EXCEPT ![t].pc = "failed", ![t].reply = reply.kind]
                /\ UNCHANGED spinner
           ELSE IF collection_name \notin DOMAIN store
           THEN \* the search raises
                /\ tasks' = [tasks EXCEPT ![t] = [asked EXCEPT !.pc = "failed"]]
                /\ UNCHANGED spinner
           ELSE \E r \in retrieve(store[collection_name], sim, keyword_query, NoFilter,
                                   DefaultWeight, AskTopK, AskFinalM) :
                    IF r.raised
                    THEN /\ tasks' = [tasks EXCEPT ![t] = [asked EXCEPT !.pc = "failed"]]
                         /\ UNCHANGED spinner
                    ELSE IF r.result = <<>>
                    THEN /\ tasks' = [tasks EXCEPT ![t] =
                                         [asked EXCEPT !.pc = "done", !.stopped = TRUE]]
                         /\ spinner' = stop_spinner(spinner)
                    ELSE /\ tasks' = [tasks EXCEPT ![t] =
                                         [asked EXCEPT !.pc = "synthesizing",
                                                       !.found = Len(r.result),
                                                       !.calls = Append(asked.calls,
                                                                        "synthesizer")]]
                         /\ UNCHANGED spinner
    /\ UNCHANGED <<back, rags_file, rags_config, active_rag_name, store, uuids, cli>>

\* The synthesizer's answer, or its exception, and the handler after ask.
TuiSynthesized(t, answered) ==
    /\ tasks[t].pc = "synthesizing"
    /\ IF answered
       THEN /\ tasks' = [tasks EXCEPT ![t].pc = "done", ![t].stopped = TRUE]
            /\ spinner' = stop_spinner(spinner)
       ELSE /\ tasks' = [tasks EXCEPT ![t].pc = "failed"]
            /\ UNCHANGED spinner
    /\ UNCHANGED <<back, rags_file, rags_config, active_rag_name, store, uuids, cli>>

\* The registry and the store as earlier sessions left them: no rags.json;
\* an empty list; an index "x" with its collection, empty or holding a file;
\* an index "x" entered by create_rag, which makes no collection.
TuiSeeds ==
    { [file |-> NoFile, store |-> NoCollections, uuids |-> 0],
      [file |-> RagList(<<>>), store |-> NoCollections, uuids |-> 0],
      [file |-> RagList(<<[name |-> "x", collection_name |-> 1]>>),
       store |-> [c \in {1} |-> EmptyCollection], uuids |-> 1],
      [file |-> RagList(<<[name |-> "x", collection_name |-> 1]>>),
       store |-> [c \in {1} |-> ingest(EmptyCollection, PathDocuments, NoFault).collection],
       uuids |-> 1],
      [file |-> RagList(<<[name |-> "x", collection_name |-> 1]>>),
       store |-> NoCollections, uuids |-> 1] }

\* The module is loaded: rags_config = read_rags_config().
InitTui ==
    /\ collection = EmptyCollection
    /\ phase = "idle"
    /\ last = NoLast
    /\ ret = NoRet
    /\ jobs = <<>>
    /\ \E seed \in TuiSeeds :
           /\ rags_file = seed.file
           /\ store = seed.store
           /\ uuids = seed.uuids
    /\ rags_config = read_rags_config(rags_file)
    /\ active_rag_name = PyNone
    /\ spinner = SpinnerAtRest
    /\ tasks = <<>>
    /\ cli = NoCli

EnterCall ==
    /\ Len(tasks) < MaxTasks
    /\ \E c \in Commands : Enter(c[1], c[2])

\* The similarities a semantic query may have to the points of task t's
\* collection.
Similarities(t) ==
    LET collection_name == SelectedRag(rags_config, tasks[t].active).collection_name
    IN  IF collection_name \in DOMAIN store
        THEN [DOMAIN store[collection_name] -> SemScores]
        ELSE {<<>>}

TuiStep(t) ==
    \/ \E created \in BOOLEAN : TuiCreate(t, created)
    \/ TuiList(t)
    \/ TuiSet(t)
    \/ TuiIngest(t)
    \/ TuiAsk(t)

TuiResume(t) ==
    \/ /\ tasks[t].pc = "ingesting"
       /\ \E fault \in {"none", "toolkit"} : TuiIngested(t, fault)
    \/ /\ tasks[t].pc = "clarifying"
       /\ \E reply \in Replies, sim \in Similarities(t) : TuiClarified(t, reply, sim)
    \/ /\ tasks[t].pc = "synthesizing"
       /\ \E answered \in BOOLEAN : TuiSynthesized(t, answered)

\* One run of `create` of the command-line tool while the TUI is open.
CliCreateBeside ==
    /\ cli = NoCli
    /\ \E name \in IndexNames : CliCreate(name)

NextTui ==
    \/ EnterCall
    \/ \E t \in DOMAIN tasks :
           /\ tasks[t].pc = "start"
           \* the event loop starts its tasks in the order they were created
           /\ \A u \in 1..t - 1 : tasks[u].pc # "start"
           /\ TuiStep(t)
    \/ \E t \in DOMAIN tasks : TuiResume(t)
    \/ SpinnerBegin
    \/ SpinnerTick
    \/ SpinnerUnwind
    \/ CliCreateBeside

SpecTui == InitTui /\ [][NextTui]_vars

(***************************************************************************)
(* Properties of ingestion, checked under Spec                             *)
(***************************************************************************)
\* C1: ingesting the same documents a second time leaves the collection as
\* the first ingestion left it: the same number of points, the same point
\* ids and the same payload under every id, whatever the collection held
\* before.
C1_IdempotentIngestion ==
    phase = "reingested" =>
        /\ last.returned
        /\ Cardinality(DOMAIN collection) = Cardinality(DOMAIN last.first)
        /\ DOMAIN collection = DOMAIN last.first
        /\ \A id \in DOMAIN collection :
               collection[id].payload = last.first[id].payload

\* A second run that wrote its points again, over a collection that already
\* held points before the first run and gained some in it.
C1_Witness ==
    /\ phase = "reingested"
    /\ last.upserts = 1
    /\ Len(last.documents) = 2
    /\ last.before # EmptyCollection
    /\ DOMAIN last.first # DOMAIN last.before

\* The last place of `text` in the batch.
LastWrite(chunks, text) ==
    CHOOSE j \in DOMAIN chunks :
        chunks[j] = text /\ \A k \in DOMAIN chunks : chunks[k] = text => k <= j

\* C2: the id of a point is the digest of its text alone, so after a run that
\* stored its batch the collection holds exactly one point for each text of
\* the batch, under the digest of that text, with the metadata of the last
\* chunk of that text in the batch; and no two points of the collection,
\* whichever run wrote them, share a text.
C2_DedupByContent ==
    (phase \in {"ingested", "reingested"} /\ last.returned) =>
        /\ \A id \in DOMAIN collection : id = ChunkHash(collection[id].payload.text)
        /\ \A id1, id2 \in DOMAIN collection :
               collection[id1].payload.text = collection[id2].payload.text => id1 = id2
        /\ \A i \in DOMAIN last.all_chunks :
               LET text == last.all_chunks[i]
                   meta == last.all_metadata[LastWrite(last.all_chunks, text)]
               IN  /\ Cardinality({ id \in DOMAIN collection :
                                      collection[id].payload.text = text }) = 1
                   /\ ChunkHash(text) \in DOMAIN collection
                   /\ collection[ChunkHash(text)].payload.file_path = meta.file_path
                   /\ collection[ChunkHash(text)].payload.chunk_id = meta.chunk_id
                   /\ collection[ChunkHash(text)].payload.source_type = meta.source_type

\* One text met three times: in the collection before the run, and twice in
\* the batch, in two files and at two chunk positions.
C2_Witness ==
    /\ phase = "ingested"
    /\ last.returned
    /\ \E i, j \in DOMAIN last.all_chunks :
           /\ i < j
           /\ last.all_chunks[i] = last.all_chunks[j]
           /\ j = LastWrite(last.all_chunks, last.all_chunks[j])
           /\ last.all_metadata[i].file_path # last.all_metadata[j].file_path
           /\ last.all_metadata[i].chunk_id # last.all_metadata[j].chunk_id
           /\ ChunkHash(last.all_chunks[j]) \in DOMAIN last.before
           /\ last.before[ChunkHash(last.all_chunks[j])].payload.file_path
                  # last.all_metadata[j].file_path

\* C3: when the chunking of one document of a batch fails, the chunks of
\* every other document of the batch are still stored in the collection.
C3_DocumentIsolation ==
    (phase = "ingested" /\ last.fault.at = "chunk") =>
        \A k \in DOMAIN last.documents \ {last.fault.doc} :
            LET chunks == chunk_document(last.documents[k])
            IN  \A i \in DOMAIN chunks : ChunkHash(chunks[i]) \in DOMAIN collection

\* Whether a document falls under the source-code or the notebook policy.
CodePolicy(document) ==
    EndsWith(document.file_path, ".py") \/ EndsWith(document.file_path, ".ipynb")

RECURSIVE ElementTexts(_)
\* The element texts of the documents, one document after the other.
ElementTexts(documents) ==
    IF documents = <<>> THEN <<>>
    ELSE [i \in DOMAIN Head(documents).elements |-> Head(documents).elements[i].text]
           \o ElementTexts(Tail(documents))

RECURSIVE ElementIndexes(_)
\* The indexes of the elements within their own document, from 0.
ElementIndexes(documents) ==
    IF documents = <<>> THEN <<>>
    ELSE [i \in DOMAIN Head(documents).elements |-> i - 1]
           \o ElementIndexes(Tail(documents))

\* C10: a batch of documents under the source-code or notebook policy is
\* chunked into exactly the texts of their elements, in element order, none
\* dropped or changed; and in every batch the chunk ids count 0, 1, 2, ...
\* within each document and start again at 0 with the next document.
C10_OrderAndChunkIds ==
    (phase = "ingested" /\ last.fault.at # "chunk") =>
        /\ (\A k \in DOMAIN last.documents : CodePolicy(last.documents[k])) =>
               /\ last.all_chunks = ElementTexts(last.documents)
               /\ [i \in DOMAIN last.all_metadata |-> last.all_metadata[i].chunk_id]
                      = ElementIndexes(last.documents)
        /\ Len(last.all_metadata) = Len(last.all_chunks)
        /\ \A i \in DOMAIN last.all_metadata :
               \/ last.all_metadata[i].chunk_id = 0
               \/ /\ i > 1
                  /\ last.all_metadata[i].chunk_id = last.all_metadata[i - 1].chunk_id + 1
                  /\ last.all_metadata[i].file_path = last.all_metadata[i - 1].file_path
        /\ \A i \in DOMAIN last.all_metadata :
               (i > 1 /\ last.all_metadata[i].file_path # last.all_metadata[i - 1].file_path)
                   => last.all_metadata[i].chunk_id = 0

\* A batch of a source file and a notebook, two elements each.
C10_Witness ==
    /\ phase = "ingested"
    /\ last.returned
    /\ Len(last.documents) = 2
    /\ EndsWith(last.documents[1].file_path, ".py")
    /\ EndsWith(last.documents[2].file_path, ".ipynb")
    /\ Len(last.documents[1].elements) = 2
    /\ Len(last.documents[2].elements) = 2
    /\ [i \in DOMAIN last.all_metadata |-> last.all_metadata[i].chunk_id] = <<0, 1, 0, 1>>

(***************************************************************************)
(* Properties of retrieval, checked under SpecRetrieve                     *)
(***************************************************************************)
\* C4: the candidates returned stand in descending order of fused score, and
\* of two with the same fused score the one the search returned earlier
\* stands first.
C4_DescendingStableOrder ==
    (ret.op # "none" /\ ret.retrieval.ranked) =>
        LET top   == ret.retrieval.top_indices
            fused == ret.retrieval.combined_scores
        IN  \A k, l \in DOMAIN top :
                k < l => \/ EpsLess(fused[top[l]], fused[top[k]])
                         \/ fused[top[l]] = fused[top[k]] /\ top[k] < top[l]

\* C5: from a pool of n >= 1 candidates and with final_top_m >= 1, retrieve
\* returns without an error exactly min(final_top_m, n) candidates, each a
\* different member of the pool.
C5_FinalMClamp ==
    (ret.op # "none" /\ ret.retrieval.search_results # <<>> /\ ret.final_top_m >= 1) =>
        LET pool == ret.retrieval.search_results
            top  == ret.retrieval.top_indices
        IN  /\ ~ret.raised
            /\ Len(ret.retrieval.result) = Min(ret.final_top_m, Len(pool))
            /\ Len(ret.retrieval.result) <= ret.final_top_m
            /\ Len(top) = Len(ret.retrieval.result)
            /\ \A k \in DOMAIN top :
                   /\ top[k] \in DOMAIN pool
                   /\ ret.retrieval.result[k] = pool[top[k]].payload
            /\ \A k, l \in DOMAIN top : k # l => top[k] # top[l]

\* C6: retrieve called with top_k = 0 or less ends in an error.
C6_TopKRejected ==
    (ret.op = "retrieve" /\ ret.top_k <= 0) => ret.raised

\* C7: when the search, asked for one candidate or more, finds none, retrieve
\* returns the empty list without an error and without scoring anything, and
\* ask ends normally with a warning and the "could not find" answer, the
\* synthesizer not called.
C7_EmptyPool ==
    (ret.op # "none" /\ ret.top_k >= 1 /\ ret.retrieval.search_results = <<>>) =>
        /\ ~ret.raised
        /\ ret.retrieval.result = <<>>
        /\ ~ret.retrieval.ranked
        /\ ret.retrieval.bm25_scores = <<>>
        /\ ret.retrieval.combined_scores = <<>>
        /\ ret.op = "ask" =>
               /\ ret.level = "warning"
               /\ ret.steps = <<"clarifier", "retriever">>
               /\ ret.answer = "I could not find any relevant information to answer your question."

\* ask with a keyword query over a collection that holds nothing.
C7_Witness ==
    /\ ret.op = "ask"
    /\ collection = EmptyCollection
    /\ ret.keyword_query # <<>>
    /\ ret.retrieval.search_results = <<>>
    /\ ret.level = "warning"

\* C8: the sole candidate of a pool of one gets scaled semantic score 1.0 and
\* scaled keyword score 1.0, hence fused score 1.0 under every weight, and is
\* the one result.
C8_PoolOfOne ==
    (ret.op # "none" /\ Len(ret.retrieval.search_results) = 1) =>
        /\ ~ret.raised
        /\ ret.retrieval.semantic_scores = <<[num |-> 1, den |-> 1, eps |-> 0]>>
        /\ ret.retrieval.bm25_scores = <<[num |-> 1, den |-> 1, eps |-> 0]>>
        /\ \A w \in 0..WeightDen :
               Combine(w, ret.retrieval.semantic_scores[1], ret.retrieval.bm25_scores[1])
                   = <<WeightDen, 0>>
        /\ ret.retrieval.combined_scores = << <<WeightDen, 0>> >>
        /\ ret.retrieval.result = << ret.retrieval.search_results[1].payload >>

\* x < y for two scaled scores num / (den + eps * 1e-10)
ScaledLess(x, y) ==
    EpsLess(<<x.num * y.den, x.num * y.eps>>, <<y.num * x.den, y.num * x.eps>>)

\* The fused score of candidate i of the pool under weight w.
FusedAt(w, i) ==
    Combine(w, ret.retrieval.semantic_scores[i], ret.retrieval.bm25_scores[i])

\* C9: the fused score is (1 - w) * semantic + w * keyword, with w = 0.5
\* where ask leaves it to the default; and for candidates X, whose scaled
\* keyword score exceeds its scaled semantic score, and Y, for which it is the
\* other way round, fused(X) - fused(Y) grows strictly with w, so X above Y
\* under one weight is above Y under every larger one.
C9_FusionMonotone ==
    (ret.op # "none" /\ ret.retrieval.ranked) =>
        LET n   == Len(ret.retrieval.search_results)
            sem == ret.retrieval.semantic_scores
            kw  == ret.retrieval.bm25_scores
            top == ret.retrieval.top_indices
        IN  /\ \A i \in 1..n :
                   ret.retrieval.combined_scores[i] = FusedAt(ret.bm25_weight, i)
            /\ ret.op = "ask" => 2 * ret.bm25_weight = WeightDen
            /\ \A X, Y \in 1..n :
                   (ScaledLess(sem[X], kw[X]) /\ ScaledLess(kw[Y], sem[Y])) =>
                       /\ \A w1, w2 \in 0..WeightDen :
                              w1 < w2 =>
                                  /\ EpsLess(EpsSub(FusedAt(w1, X), FusedAt(w1, Y)),
                                             EpsSub(FusedAt(w2, X), FusedAt(w2, Y)))
                                  /\ EpsLess(FusedAt(w1, Y), FusedAt(w1, X))
                                         => EpsLess(FusedAt(w2, Y), FusedAt(w2, X))
                       /\ \A k, l \in DOMAIN top :
                              (top[k] = Y /\ top[l] = X /\ k < l)
                                  => ~EpsLess(FusedAt(ret.bm25_weight, Y),
                                              FusedAt(ret.bm25_weight, X))

\* X returned first under weight 0.8 although Y beats it under weight 0.2.
C9_Witness ==
    /\ ret.op = "retrieve"
    /\ ret.retrieval.ranked
    /\ ret.bm25_weight = 8
    /\ \E X, Y \in DOMAIN ret.retrieval.search_results :
           /\ ScaledLess(ret.retrieval.semantic_scores[X], ret.retrieval.bm25_scores[X])
           /\ ScaledLess(ret.retrieval.bm25_scores[Y], ret.retrieval.semantic_scores[Y])
           /\ ret.retrieval.top_indices[1] = X
           /\ Y \in { ret.retrieval.top_indices[k] : k \in DOMAIN ret.retrieval.top_indices }
           /\ EpsLess(FusedAt(2, X), FusedAt(2, Y))

(***************************************************************************)
(* Properties of the source type, checked under Spec                       *)
(***************************************************************************)
\* C11: two documents of one batch with the same elements, whose extensions
\* differ in letter case only, are chunked alike: the chunks of the batch are
\* the same list twice.
C11_CaseInsensitivePolicy ==
    (/\ phase = "ingested"
     /\ last.fault.at # "chunk"
     /\ Len(last.documents) = 2
     /\ last.documents[1].elements = last.documents[2].elements
     /\ Lower(SplitExt(last.documents[1].file_path))
            = Lower(SplitExt(last.documents[2].file_path))) =>
        LET half == Len(last.all_chunks) \div 2
        IN  /\ Len(last.all_chunks) = 2 * half
            /\ SubSeq(last.all_chunks, 1, half)
                   = SubSeq(last.all_chunks, half + 1, 2 * half)

\* C20: the source type stored with every chunk of a run is the extension of
\* its file in lower case, the dot included.
C20_LowercaseSourceType ==
    (phase = "ingested" /\ last.returned) =>
        \A i \in DOMAIN last.all_chunks :
            LET payload == collection[ChunkHash(last.all_chunks[i])].payload
            IN  payload.source_type = Lower(SplitExt(payload.file_path))

(***************************************************************************)
(* Failures and growth of the collection, checked under Spec               *)
(***************************************************************************)
\* C14: when embed_chunks raises, the store receives no upsert, the
\* collection is what it was before the run, and ingest logs an error and
\* returns False.
C14_NoUpsertOnEmbedFailure ==
    (phase = "ingested" /\ last.fault.at = "embed" /\ last.embeds = 1) =>
        /\ last.upserts = 0
        /\ collection = last.before
        /\ ~last.returned
        /\ last.level = "error"

\* An embedding failure on a batch of two chunks or more, one of them new to
\* the collection.
C14_Witness ==
    /\ phase = "ingested"
    /\ last.fault.at = "embed"
    /\ last.embeds = 1
    /\ Len(last.all_chunks) >= 2
    /\ ChunkHash(last.all_chunks[1]) \notin DOMAIN last.before
    /\ last.before # EmptyCollection

\* The ids a run wrote: the digests of its chunks when it succeeded.
WrittenIds ==
    IF last.returned
    THEN { ChunkHash(last.all_chunks[i]) : i \in DOMAIN last.all_chunks }
    ELSE {}

\* C17: ingestion deletes no point.  Every id the collection held before a
\* run is held after it, a point the run did not write is as it was, every
\* chunk of a successful run is stored under the digest of its text, and the
\* number of points does not go down from run to run.
C17_NeverDeletes ==
    (phase \in {"ingested", "reingested"}) =>
        /\ DOMAIN last.before \subseteq DOMAIN last.first
        /\ DOMAIN last.first \subseteq DOMAIN collection
        /\ Cardinality(DOMAIN last.before) <= Cardinality(DOMAIN last.first)
        /\ Cardinality(DOMAIN last.first) <= Cardinality(DOMAIN collection)
        /\ \A id \in DOMAIN last.before \ WrittenIds : collection[id] = last.before[id]
        /\ WrittenIds \subseteq DOMAIN collection

\* A file ingested again with another text at a chunk position it had before:
\* the new text got a new point, the point of the old text is still there.
C17_Witness ==
    /\ phase = "ingested"
    /\ last.returned
    /\ \E old \in DOMAIN last.before \ WrittenIds, i \in DOMAIN last.all_chunks :
           /\ last.before[old].payload.file_path = last.all_metadata[i].file_path
           /\ last.before[old].payload.chunk_id = last.all_metadata[i].chunk_id
           /\ last.before[old].payload.text # last.all_chunks[i]
           /\ ChunkHash(last.all_chunks[i]) \notin DOMAIN last.before
           /\ ChunkHash(last.all_chunks[i]) \in DOMAIN collection
           /\ old \in DOMAIN collection
    /\ Cardinality(DOMAIN collection) > Cardinality(DOMAIN last.before)

(***************************************************************************)
(* Properties of the toolkits, checked under SpecToolkit                   *)
(***************************************************************************)
\* C12: a call of the store with chunks and metadata lists of different
\* lengths ends in an error and writes nothing.
C12_LengthMismatchRejected ==
    (phase = "stored" /\ Len(last.chunks) # Len(last.metadata_list)) =>
        /\ last.raised
        /\ last.upserts = 0
        /\ collection = last.before

\* C13: when the number of vectors differs from the number of chunks, fewer
\* or more, the store call ends in an error and no point is upserted.
C13_VectorCountMismatchFatal ==
    (/\ phase = "stored"
     /\ Len(last.chunks) = Len(last.metadata_list)
     /\ Len(last.embeddings) # Len(last.chunks)) =>
        /\ last.raised
        /\ last.upserts = 0
        /\ collection = last.before

\* The files of the walk that parsed, as documents, in the order met.
Parsed(files) ==
    LET ok == SelectSeq(files, LAMBDA f : f.parses)
    IN  [i \in DOMAIN ok |-> [file_path |-> ok[i].file_path, elements |-> ok[i].elements]]

\* C15: of the files of a directory, those that parse are all returned as
\* documents and ingested (their chunks are the chunks of the run, each
\* stored), those that fail are each reported, and ingest returns True.
C15_ParseFailuresNotFatal ==
    phase = "loaded" =>
        /\ last.documents = Parsed(last.files)
        /\ { last.errors[i] : i \in DOMAIN last.errors }
               = { last.files[i].file_path : i \in { j \in DOMAIN last.files :
                                                       ~last.files[j].parses } }
        /\ last.returned
        /\ last.level \in {"success", "warning"}
        /\ \A j \in DOMAIN last.all_chunks :
               ChunkHash(last.all_chunks[j]) \in DOMAIN collection
        /\ last.all_chunks = AllChunks(Parsed(last.files))

\* A walk over two files: the first fails to parse, the second parses and
\* its chunks, new to the collection, are stored.
C15_Witness ==
    /\ phase = "loaded"
    /\ Len(last.files) = 2
    /\ ~last.files[1].parses
    /\ last.files[2].parses
    /\ last.errors = <<last.files[1].file_path>>
    /\ last.all_chunks # <<>>
    /\ \E j \in DOMAIN last.all_chunks :
           ChunkHash(last.all_chunks[j]) \notin DOMAIN last.before
    /\ last.returned

(***************************************************************************)
(* Further properties of retrieval, checked under SpecRetrieve             *)
(***************************************************************************)
\* C18: a query leaves the collection as it was, ids, vectors and payloads,
\* and writes nothing else; what it returns is read from that collection:
\* every hit is a point of it that passes the filter, with its payload and
\* its similarity to the query, and every result is the payload of a hit.
C18_ReadOnlyStateless ==
    [][ ret'.op # "none" =>
            /\ collection' = collection
            /\ last' = last
            /\ jobs' = jobs
            /\ \A i \in DOMAIN ret'.retrieval.search_results :
                   LET hit == ret'.retrieval.search_results[i]
                   IN  /\ hit.id \in DOMAIN collection
                       /\ hit.payload = collection[hit.id].payload
                       /\ hit.score = ret'.sim[hit.id]
                       /\ Matches(ret'.metadata_filter, hit.payload)
            /\ \A k \in DOMAIN ret'.retrieval.result :
                   \E i \in DOMAIN ret'.retrieval.search_results :
                       ret'.retrieval.result[k] = ret'.retrieval.search_results[i].payload
      ]_vars

\* A query that returned two candidates or more.
C18_Witness ==
    /\ ret.op = "retrieve"
    /\ ~ret.raised
    /\ Len(ret.retrieval.result) >= 2
    /\ collection # EmptyCollection

\* C19: with a keyword query that holds no word, retrieve over a pool of one
\* candidate or more does not fail, every candidate has a scaled keyword
\* score, all of them 0 in a pool of two or more, and the candidates returned
\* stand in descending order of their similarity score.
C19_EmptyKeywordQuery ==
    (/\ ret.op # "none"
     /\ Split(ret.keyword_query) = <<>>
     /\ ret.retrieval.search_results # <<>>) =>
        LET pool == ret.retrieval.search_results
            top  == ret.retrieval.top_indices
        IN  /\ ~ret.raised
            /\ Len(ret.retrieval.bm25_scores) = Len(pool)
            /\ Len(pool) >= 2 =>
                   \A i \in DOMAIN pool : ret.retrieval.bm25_scores[i].num = 0
            /\ \A k, l \in DOMAIN top :
                   k < l => pool[top[k]].score >= pool[top[l]].score

(***************************************************************************)
(* Properties of concurrent ingestion, checked under SpecJobs              *)
(***************************************************************************)
\* The collection two ingestions leave when the second starts after the
\* first has returned.
OneAfterTheOther(coll, d1, d2) ==
    ingest(ingest(coll, <<d1>>, NoFault).collection, <<d2>>, NoFault).collection

AllDone == phase = "running" /\ \A t \in DOMAIN jobs : jobs[t].pc = "done"

\* C16: when two ingestions that ran at the same time have both ended,
\* however their writes interleaved, the collection holds the ids that
\* running them one after the other leaves, in either order; it holds one
\* point for each distinct text, under the digest of that text, none lost;
\* and each point is as one of the two orders leaves it.
C16_ConcurrentIngestion ==
    AllDone =>
        LET d1 == last.documents[1]
            d2 == last.documents[2]
            s12 == OneAfterTheOther(last.before, d1, d2)
            s21 == OneAfterTheOther(last.before, d2, d1)
        IN  /\ DOMAIN collection = DOMAIN s12
            /\ DOMAIN collection = DOMAIN s21
            /\ \A id \in DOMAIN collection : collection[id] \in {s12[id], s21[id]}
            /\ \A id1, id2 \in DOMAIN collection :
                   collection[id1].payload.text = collection[id2].payload.text
                       => id1 = id2
            /\ \A id \in DOMAIN last.before : id \in DOMAIN collection
            /\ \A k \in {1, 2} :
                   LET chunks == chunk_document(last.documents[k])
                   IN  \A i \in DOMAIN chunks :
                           /\ ChunkHash(chunks[i]) \in DOMAIN collection
                           /\ collection[ChunkHash(chunks[i])].payload.text = chunks[i]

\* Two ingestions of different files that share chunk texts, over a
\* collection that held points already, whose writes interleaved so that the
\* collection is what neither order of running them alone leaves.
C16_Witness ==
    /\ AllDone
    /\ last.before # EmptyCollection
    /\ last.documents[1].file_path # last.documents[2].file_path
    /\ LET c1 == chunk_document(last.documents[1])
           c2 == chunk_document(last.documents[2])
       IN  { c1[i] : i \in DOMAIN c1 } \cap { c2[i] : i \in DOMAIN c2 } # {}
    /\ collection # OneAfterTheOther(last.before, last.documents[1], last.documents[2])
    /\ collection # OneAfterTheOther(last.before, last.documents[2], last.documents[1])

(***************************************************************************)
(* C21: every chunk has text                                               *)
(***************************************************************************)
\* C21: every chunk that chunk_document produces, and so every point that an
\* ingestion stores, has a non-empty text, also for documents that hold
\* elements without text.
C21_NonEmptyText ==
    (phase = "loaded") =>
        /\ \A i \in DOMAIN last.all_chunks : last.all_chunks[i] # <<>>
        /\ \A id \in DOMAIN collection : collection[id].payload.text # <<>>

(***************************************************************************)
(* C22: the section that holds the keyword comes first                     *)
(***************************************************************************)
\* The query is the one word "a" and, of a pool of three candidates, exactly
\* one has that word in its text; bm25_weight is at least w tenths.
KeywordInOneOfThree(w) ==
    /\ phase = "queried"
    /\ ret.op = "retrieve"
    /\ ret.keyword_query = <<"a">>
    /\ ret.bm25_weight >= w
    /\ Len(ret.retrieval.search_results) = 3
    /\ Cardinality({ i \in 1..3 :
           Freq(Split(ret.retrieval.search_results[i].payload.text), <<"a">>) > 0 }) = 1

\* The first result is the candidate that has the word "a".
KeywordHolderFirst ==
    /\ ~ret.raised
    /\ ret.retrieval.result # <<>>
    /\ Freq(Split(ret.retrieval.result[1].text), <<"a">>) > 0

C24_UpsertProtocol ==
    /\ (phase = "stored") =>
          LET n == Min(Len(last.chunks), Len(last.metadata_list))
          IN  /\ last.upserts <= 1
              /\ (n = 0) => (last.upserts = 0 /\ collection = last.before)
              /\ (last.upserts = 1) =>
                    /\ Len(last.points) = n
                    /\ \A i \in 1..n :
                          last.points[i] = PointStruct(last.chunks[i], last.embeddings[i],
                                                       last.metadata_list[i])
                    /\ collection = Upsert(last.before, last.points)
              /\ (last.upserts = 0) => collection = last.before
    /\ (phase = "loaded") =>
          /\ last.upserts <= 1
          /\ (last.upserts = 1) =>
                /\ last.embeds = 1
                /\ Len(last.all_chunks) = Len(last.all_metadata)
                /\ collection = Upsert(last.before,
                                       [i \in DOMAIN last.all_chunks |->
                                          PointStruct(last.all_chunks[i],
                                                      Encode(last.all_chunks[i]),
                                                      last.all_metadata[i])])
          /\ (last.all_chunks = <<>>) => (last.upserts = 0 /\ last.embeds = 0)

\* A batch of two pairs stored over a collection that already holds the point
\* of one of them: that point is in the upsert call all the same.
C24_Witness ==
    /\ phase = "stored"
    /\ last.upserts = 1
    /\ Len(last.points) = 2
    /\ last.points[1].id \in DOMAIN last.before
    /\ last.points[2].id \notin DOMAIN last.before

(***************************************************************************)
(* C23: --ocr sends PDF files to the OCR reader                            *)
(***************************************************************************)
\* C23: when ingest_data runs with --ocr on a path that is or holds a file
\* ending in .pdf, that file is processed through the OCR reader.
C23_OcrReachesPdf ==
    (cli.op = "ingest" /\ cli.outcome = "completed" /\ cli.ocr) =>
        \A i \in DOMAIN cli.files :
            (Lower(SplitExt(cli.files[i])) = ".pdf") =>
                \E k \in DOMAIN cli.processed :
                    /\ cli.processed[k].file_path = cli.files[i]
                    /\ cli.processed[k].via = "MistralReader"

(***************************************************************************)
(* Properties of the TUI, checked under SpecTui                            *)
(***************************************************************************)
AskTasks == { t \in DOMAIN tasks : tasks[t].command = "/ask" }

Called(t, who) == \E k \in DOMAIN tasks[t].calls : tasks[t].calls[k] = who

\* C25: in RAGPipeline.ask the clarifier is called first; the retriever is
\* called only once the clarifier has returned, and with the original query
\* as semantic and as keyword query when the reply could not be parsed; the
\* synthesizer is called only after the retriever returned a non-empty
\* result, and never when it returned nothing.
C25_AskOrdering ==
    \A t \in AskTasks :
        /\ tasks[t].calls \in { <<>>, <<"clarifier">>, <<"clarifier", "retriever">>,
                                 <<"clarifier", "retriever", "synthesizer">> }
        /\ (tasks[t].pc = "clarifying") => (tasks[t].calls = <<"clarifier">>)
        /\ Called(t, "retriever") =>
              /\ tasks[t].reply \in {"parsed", "unparsable"}
              /\ (tasks[t].reply = "unparsable") =>
                    /\ tasks[t].semantic_query = <<tasks[t].arg>>
                    /\ tasks[t].keyword_query = <<tasks[t].arg>>
        /\ Called(t, "synthesizer") <=> (tasks[t].found > 0)
        /\ (tasks[t].pc = "synthesizing") => Called(t, "synthesizer")

\* An /ask whose clarifier reply did not parse, that retrieved chunks with
\* the original query and went on to the synthesizer.
C25_Witness ==
    \E t \in AskTasks :
        /\ tasks[t].reply = "unparsable"
        /\ tasks[t].keyword_query = <<"a">>
        /\ tasks[t].calls = <<"clarifier", "retriever", "synthesizer">>
        /\ tasks[t].pc = "done"

Finished(t) == tasks[t].pc \in {"done", "failed"}

\* C26: every /ask or /ingest command that called start_spinner has called
\* stop_spinner once its pipeline call is over, whether that call returned or
\* raised; and when no command is in progress and no cancelled spinner loop
\* is left to unwind, the spinner is off and the status is "Ready".
C26_SpinnerStops ==
    /\ \A t \in DOMAIN tasks :
          (tasks[t].command \in {"/ask", "/ingest"} /\ tasks[t].spun /\ Finished(t))
              => tasks[t].stopped
    /\ ((\A t \in DOMAIN tasks : Finished(t)) /\ spinner.unwinding = 0)
          => (spinner.status_text = "Ready" /\ ~spinner.spinner_running)

CreateTasks == { t \in DOMAIN tasks : tasks[t].command = "/create" }

\* C27: a create command works on whatever read_rags_config returned, the
\* value it returns when rags.json does not exist included: /create ends
\* without an exception with the name in the registry (unless the store
\* refused the collection), and create_rag ends with the name in rags.json.
C27_FreshCreateWorks ==
    /\ \A t \in CreateTasks :
          Finished(t) =>
              /\ tasks[t].pc = "done"
              /\ ~LookupRaises(rags_config)
              /\ (tasks[t].reply # "raised") => (tasks[t].arg \in NamesOf(rags_config))
    /\ (cli.op = "create") =>
          /\ cli.outcome \in {"created", "exists"}
          /\ rags_file # NoFile
          /\ cli.name \in NamesOf(rags_file)

\* No two entries of a registry value have the same name.
UniqueNames(config) ==
    (config.type = "list") =>
        \A i, j \in DOMAIN config.items :
            (i # j) => (config.items[i].name # config.items[j].name)

\* The step in which task t, a /create for a name the registry has, runs.
DuplicateCreate(t) ==
    /\ tasks[t].command = "/create"
    /\ tasks[t].pc = "start"
    /\ tasks'[t].pc # "start"
    /\ rags_config.type = "list"
    /\ \E i \in DOMAIN rags_config.items : rags_config.items[i].name = tasks[t].arg

\* The step in which create_rag runs for a name that rags.json has.
DuplicateCliCreate ==
    /\ cli' # cli
    /\ cli'.op = "create"
    /\ rags_file.type = "list"
    /\ \E i \in DOMAIN rags_file.items : rags_file.items[i].name = cli'.name

\* C28: whatever create commands were given, /create tasks entered back to
\* back included, no two entries of the registry (the TUI's list, rags.json)
\* have the same name; and a create for a name that exists leaves the
\* registry as it is and creates no collection.
C28_UniqueIndexNames ==
    /\ [](UniqueNames(rags_config) /\ UniqueNames(rags_file))
    /\ [][ /\ \A t \in DOMAIN tasks :
                 DuplicateCreate(t) =>
                     /\ rags_config' = rags_config
                     /\ rags_file' = rags_file
                     /\ store' = store
                     /\ tasks'[t].calls = <<>>
           /\ DuplicateCliCreate => (rags_file' = rags_file /\ store' = store) ]_vars

\* Two /create commands for one new name were entered back to back: the
\* first made the index, the second found it and made nothing.
C28_Witness ==
    /\ Len(tasks) >= 2
    /\ tasks[1].command = "/create" /\ tasks[2].command = "/create"
    /\ tasks[1].arg = tasks[2].arg
    /\ tasks[1].reply = "created"
    /\ tasks[2].pc = "done" /\ tasks[2].calls = <<>>
    /\ rags_config.type = "list"
    /\ Cardinality({ i \in DOMAIN rags_config.items :
                        rags_config.items[i].name = tasks[1].arg }) = 1

\* The step in which task t, a /create, runs and the store refuses the
\* collection.
RefusedCreate(t) ==
    /\ tasks[t].command = "/create"
    /\ tasks[t].pc = "start"
    /\ tasks'[t].reply = "raised"

\* C29: when recreate_collection raises in /create, nothing is appended to
\* rags_config, rags.json is not written and the spinner is stopped; and an
\* entry is appended to rags_config only together with the creation of its
\* collection.
C29_CreateAllOrNothing ==
    [][ /\ \A t \in DOMAIN tasks :
             RefusedCreate(t) =>
                 /\ rags_config' = rags_config
                 /\ rags_file' = rags_file
                 /\ store' = store
                 /\ tasks'[t].stopped
                 /\ spinner'.task = PyNone
                 /\ ~spinner'.spinner_running
                 /\ spinner'.status_text = "Ready"
        /\ (rags_config' # rags_config) =>
              LET new_rag == rags_config'.items[Len(rags_config'.items)]
              IN  /\ rags_config'.items = Append(rags_config.items, new_rag)
                  /\ new_rag.collection_name \in DOMAIN store' \ DOMAIN store
                  /\ rags_file' = rags_config' ]_vars

\* A /create that the store refused, while the spinner was turning for an
\* /ask in progress: the name is not in the registry, no collection was
\* made, and the spinner is stopped.
C29_Witness ==
    \E t \in CreateTasks :
        /\ tasks[t].reply = "raised"
        /\ tasks[t].pc = "done"
        /\ tasks[t].spun /\ tasks[t].stopped
        /\ rags_config.type = "list"
        /\ tasks[t].arg \notin NamesOf(rags_config)
        /\ \A c \in DOMAIN store :
              \E i \in DOMAIN rags_config.items : rags_config.items[i].collection_name = c
        /\ \E u \in AskTasks : tasks[u].pc = "synthesizing"
        /\ spinner.task = PyNone /\ spinner.unwinding = 1

\* active_rag_name is None or the name of an entry of rags_config.
ActiveIsRegistered ==
    \/ active_rag_name = PyNone
    \/ /\ rags_config.type = "list"
       /\ active_rag_name \in NamesOf(rags_config)

\* Task t is an /ingest or an /ask.
PipelineTasks == { t \in DOMAIN tasks : tasks[t].command \in {"/ingest", "/ask"} }

\* The step in which task t, a /set for a name rags_config does not hold,
\* runs.
UnknownSet(t) ==
    /\ AtStart(t, "/set")
    /\ tasks'[t].pc # "start"
    /\ \/ rags_config.type # "list"
       \/ tasks[t].arg \notin NamesOf(rags_config)

\* The step in which task t, an /ingest or an /ask, runs while
\* active_rag_name is None.
InactiveStep(t) ==
    /\ t \in PipelineTasks
    /\ tasks[t].pc = "start"
    /\ tasks'[t].pc # "start"
    /\ active_rag_name = PyNone

\* C30: active_rag_name is always None or the name of an entry of
\* rags_config, a /set for an unknown name leaves it as it was, and an /ingest
\* or /ask that runs while it is None returns without calling the pipeline or
\* the spinner and leaves every collection of the store as it was.
C30_ActiveIndex ==
    /\ [](/\ ActiveIsRegistered
          /\ \A t \in PipelineTasks :
                (tasks[t].pc # "start" /\ tasks[t].active = PyNone) =>
                    /\ tasks[t].pc = "done"
                    /\ tasks[t].calls = <<>>
                    /\ ~tasks[t].spun)
    /\ [][ /\ \A t \in DOMAIN tasks :
                 UnknownSet(t) => active_rag_name' = active_rag_name
           /\ \A t \in DOMAIN tasks :
                 InactiveStep(t) =>
                     /\ tasks'[t].pc = "done"
                     /\ tasks'[t].calls = <<>>
                     /\ store' = store
                     /\ spinner' = spinner
                     /\ active_rag_name' = active_rag_name ]_vars

\* With "x" registered and holding stored points, a /set for the unknown "y"
\* left the active index unset, and the /ingest and /ask that followed
\* returned without a call; the collection still holds its points.
C30_Witness ==
    /\ Len(tasks) = 3
    /\ tasks[1].command = "/set" /\ tasks[1].arg = "y" /\ tasks[1].pc = "done"
    /\ tasks[2].command = "/ingest" /\ tasks[2].arg = "p" /\ tasks[2].pc = "done"
    /\ tasks[3].command = "/ask" /\ tasks[3].pc = "done"
    /\ \A t \in {2, 3} : tasks[t].active = PyNone /\ tasks[t].calls = <<>>
    /\ active_rag_name = PyNone
    /\ rags_config.type = "list"
    /\ NamesOf(rags_config) = {"x"}
    /\ 1 \in DOMAIN store
    /\ DOMAIN store[1] # {}

====
